---- MODULE Spec2Model ----
(***************************************************************************)
(* A model of bot.py: the quote ("calc") session manager, the customer     *)
(* ledger and the operator's visit-entry wizard.                           *)
(*                                                                         *)
(* One action is one handler run.  python-telegram-bot handles one update  *)
(* at a time, so handlers never interleave with each other; the job queue  *)
(* dispatches an expiry callback (TimerFire) and runs it later             *)
(* (CalcTimeoutJob), so handlers may run between the two.                  *)
(*                                                                         *)
(* Strings are kept as strings: session ids, customer ids and the linked   *)
(* user ids are the decimal strings the code builds with str() and reads   *)
(* back with int().                                                        *)
(***************************************************************************)
EXTENDS Integers, Sequences, FiniteSets, TLC

\* ------------------------------------------------------------------ bounds
\* The wall clock (milliseconds) runs from 1 to MaxClock.
MaxClock == 2
\* At most MaxRunning dispatched expiry callbacks per actor wait to run.
MaxRunning == 1
\* Customer ids are generated up to MaxId.
MaxId == 2
\* The wizard commits visits while every record has fewer than MaxVisits.
MaxVisits == 2
\* The same, where the discount rule is exercised.
MaxLedgerVisits == 4
\* project sums grow up to MaxSum.
MaxSum == 70000

\* ------------------------------------------------------- program constants
ADMIN_ID == 1006274417
DISCOUNT_VISITS == 4
DISCOUNT_SUM == 60000

\* Calendar days are numbered 0 .. MaxDay; today + timedelta(days=1) is the
\* next number.
MaxDay == 3

\* The customer-side actors (Telegram user ids).
Actors == {11, 12}

\* What a dict lookup gives for a missing key, and the empty callback field.
None == "<None>"
EmptyStr == ""

VARIABLES
    customers,   \* data["customers"]: customer id -> record
    calc_store,  \* bot_data["calc_store"]: a dict, as its set of items
    jobs,        \* job queue: scheduled calc_timeout_<uid> jobs per actor
    running,     \* expiry callbacks dispatched by the scheduler, not yet run
    now,         \* int(time.time() * 1000)
    lastIssued,  \* history: the session id of the most recent start
    active,      \* history: started and neither reset nor expired since
    superseded,  \* history: session ids of sessions a later start replaced
    disk,        \* data.json: the customers last written by save_data
    writable,    \* open(DATA_FILE, "w") and json.dump go through
    conv,        \* the operator's ConversationHandler state
    user_data,   \* the operator's context.user_data
    guest,       \* conversation state and user_data of each other actor
    everCids,    \* history: the customer ids buttons may carry
    repriced,    \* history: the draft's price replaced a different one
    picked,      \* history: the draft fields picked since SELECT_DATE was shown
    ev           \* the last handler run and its answer

vars == <<customers, calc_store, jobs, running, now, lastIssued, active,
          superseded, disk, writable, conv, user_data, guest, everCids,
          repriced, picked, ev>>

wizVars == <<conv, user_data, repriced, picked, guest>>

calcVars == <<calc_store, jobs, running, lastIssued, active, superseded>>

ledgerVars == <<customers, disk, everCids>>

\* ------------------------------------------------------------ conversions
\* str(n) of a non-negative int.
Str(n) == ToString(n)

IsDigit(s) == \E n \in 0..(MaxId + 1) : Str(n) = s

\* int(s) of a decimal string.
IntOf(s) == CHOOSE n \in 0..(MaxId + 1) : Str(n) = s

\* int(text) succeeds on the decimal text of a user id.
IsIntText(text) == \E a \in Actors : Str(a) = text

\* --------------------------------------------------------------- helpers
InSeq(x, s) == \E i \in 1..Len(s) : s[i] = x

\* list.remove(x): the first occurrence only.
RemoveFirst(s, x) ==
    LET i == CHOOSE k \in 1..Len(s) : s[k] = x /\ \A j \in 1..(k - 1) : s[j] # x
    IN SubSeq(s, 1, i - 1) \o SubSeq(s, i + 1, Len(s))

\* ------------------------------------------------------------------ dicts
\* A dict as its set of items [key, val].
DictHas(d, k) == \E e \in d : e.key = k

DictGet(d, k) == (CHOOSE e \in d : e.key = k).val

DictPop(d, k) == {e \in d : e.key # k}

DictSetNoReplace(d, k, v) == d \cup {[key |-> k, val |-> v]}

\* d[k] = v
DictSet(d, k, v) == DictPop(d, k) \cup {[key |-> k, val |-> v]}

\* ------------------------------------------------------------- the ledger
NoCustomers == [c \in {} |-> 0]

NewCustomer(name) ==
    [name |-> name, ids |-> <<>>, projects_sum |-> 0, discount |-> FALSE,
     visits |-> <<>>]

\* The first record, in dict order, that lists str(uid); None without one.
\* Ids are generated increasing, so dict order is numeric order.
find_customer_by_userid(cs, uid) ==
    LET hit == {c \in DOMAIN cs : InSeq(Str(uid), cs[c].ids)}
    IN IF hit = {} THEN None
       ELSE CHOOSE c \in hit : \A d \in hit : IntOf(c) <= IntOf(d)

SetMax(S) == CHOOSE m \in S : \A x \in S : x <= m

generate_customer_id(cs) ==
    IF DOMAIN cs = {} THEN "1"
    ELSE Str(SetMax({IntOf(c) : c \in {d \in DOMAIN cs : IsDigit(d)}}) + 1)

\* The ledger with the new customer, under the generated id.
ensure_customer(cs, name) ==
    LET cid == generate_customer_id(cs)
    IN IF cid \notin DOMAIN cs THEN cs @@ (cid :> NewCustomer(name)) ELSE cs

DiscountStale(cust) == cust

\* The flag is recomputed and every stored visit is re-priced with it.
RecalcRepricesVisits(cust) ==
    LET flag == (Len(cust.visits) >= DISCOUNT_VISITS
                 \/ cust.projects_sum >= DISCOUNT_SUM)
    IN [cust EXCEPT !.discount = flag,
                    !.visits = [i \in DOMAIN cust.visits |->
                        [cust.visits[i] EXCEPT !.price =
                            IF flag THEN 22000 ELSE 25000]]]

recalc_discount(cust) ==
    [cust EXCEPT !.discount =
        (Len(cust.visits) >= DISCOUNT_VISITS \/ cust.projects_sum >= DISCOUNT_SUM)]

\* for other_cid, other_cust in customers: if uid in ids: ids.remove(uid)
UnlinkEverywhere(cs, uid) ==
    [c \in DOMAIN cs |->
        IF InSeq(uid, cs[c].ids)
        THEN [cs[c] EXCEPT !.ids = RemoveFirst(@, uid)]
        ELSE cs[c]]

LinkWithoutUnlink(cs, cid, uid) ==
    IF ~InSeq(uid, cs[cid].ids)
    THEN [cs EXCEPT ![cid].ids = Append(@, uid)]
    ELSE cs

\* The unlink loop skips nothing but the append is unconditional.
LinkAppendsAlways(cs, cid, uid) ==
    [UnlinkEverywhere(cs, uid) EXCEPT ![cid].ids = Append(cs[cid].ids, uid)]

\* Unlink uid from every record, then append it to cid's ids.
LinkUser(cs, cid, uid) ==
    LET un == UnlinkEverywhere(cs, uid)
    IN IF ~InSeq(uid, un[cid].ids)
       THEN [un EXCEPT ![cid].ids = Append(@, uid)]
       ELSE un

DelClearsOnly(cs, cid) == [cs EXCEPT ![cid].visits = <<>>]

\* del data["customers"][cid]
DelCustomer(cs, cid) == [c \in DOMAIN cs \ {cid} |-> cs[c]]

\* ------------------------------------------------------------ data.json
SaveWritesNothing(cs, file, ok) == file

\* save_data(): the whole ledger cs replaces the file; when the write
\* raises, the exception is logged and the file stays as it was.
save_data(cs, file, ok) == IF ok THEN cs ELSE file

\* Every record without linked users is removed, whatever its id.
CleanupAllUnlinked(cs) ==
    [c \in {d \in DOMAIN cs : cs[d].ids # <<>>} |-> cs[c]]

\* cleanup_data(): the records with no linked user and an all-digit id are
\* deleted.
cleanup_data(cs) ==
    [c \in {d \in DOMAIN cs : ~(cs[d].ids = <<>> /\ IsDigit(d))} |-> cs[c]]

\* ------------------------------------------------------ the calc session
\* session_id = str(int(time.time() * 1000))
SessionId(t) == Str(t)

CancelNothing(j, uid) == j

\* Every calc_timeout job is removed, whatever user the name is for.
CancelEveryTimeout(j, uid) == [a \in DOMAIN j |-> 0]

\* Every job named calc_timeout_<uid> is removed from the queue.
cancel_calc_timeout(j, uid) == [j EXCEPT ![uid] = 0]

\* job_queue.run_once(_calc_timeout_job, name=calc_timeout_<uid>)
run_once(j, uid) == [j EXCEPT ![uid] = @ + 1]

\* The session is popped and the timer stays in the queue.
ResetKeepsTimer(store, j, uid) ==
    [store |-> DictPop(store, uid), jobs |-> j]

reset_calc_session(store, j, uid) ==
    [store |-> DictPop(store, uid), jobs |-> cancel_calc_timeout(j, uid)]

start_or_restart_calc_session(store, j, uid, t) ==
    LET r == reset_calc_session(store, j, uid)
        session_id == SessionId(t)
    IN [store |-> DictSet(r.store, uid, [session |-> session_id, ts |-> t]),
        jobs |-> run_once(r.jobs, uid),
        session_id |-> session_id]

\* The timer is replaced whether or not the actor has a session.
TouchAlwaysSchedules(store, j, uid, t) ==
    [store |-> IF DictHas(store, uid)
               THEN DictSet(store, uid,
                        [session |-> DictGet(store, uid).session, ts |-> t])
               ELSE store,
     jobs |-> run_once(cancel_calc_timeout(j, uid), uid)]

touch_calc_session(store, j, uid, t) ==
    IF ~DictHas(store, uid)
    THEN [store |-> store, jobs |-> j]
    ELSE [store |-> DictSet(store, uid,
                       [session |-> DictGet(store, uid).session, ts |-> t]),
          jobs |-> run_once(cancel_calc_timeout(j, uid), uid)]

get_active_calc_session(store, uid) ==
    IF DictHas(store, uid) THEN DictGet(store, uid).session ELSE None

is_session_valid(store, uid, session_id) ==
    session_id # EmptyStr /\ get_active_calc_session(store, uid) = session_id

\* ---------------------------------------------------------------- events
\* What a handler run leaves for the observer: the handler, the actor, the
\* session id the update carried (or start returned), and the answer shown.
Event(op, uid, sid, reply) == [op |-> op, uid |-> uid, sid |-> sid, reply |-> reply]

Kinds == {"free", "exact", "urgent_tomorrow", "urgent_today", "holiday"}

Durations == {"4", "8", "night_4", "night_8"}

\* ------------------------------------------------- quote-session actions
\* The wall clock advances.
Tick ==
    /\ now < MaxClock
    /\ now' = now + 1
    /\ ev' = Event("tick", 0, EmptyStr, "none")
    /\ UNCHANGED <<calcVars, ledgerVars, wizVars, writable>>

\* The session ids start has returned to uid so far.
Issued(uid) ==
    superseded[uid] \cup (IF lastIssued[uid] = None THEN {} ELSE {lastIssued[uid]})

\* The history variables after reset_calc_session(uid).
EndSession(uid) ==
    /\ active' = [active EXCEPT ![uid] = FALSE]
    /\ UNCHANGED <<lastIssued, superseded>>

\* /start
start(uid) ==
    /\ IF find_customer_by_userid(customers, uid) = None
       THEN /\ ev' = Event("start", uid, EmptyStr, "welcome_pending")
            /\ UNCHANGED calcVars
       ELSE LET r == reset_calc_session(calc_store, jobs, uid)
            IN /\ calc_store' = r.store
               /\ jobs' = r.jobs
               /\ EndSession(uid)
               /\ ev' = Event("start", uid, EmptyStr, "main_menu")
               /\ UNCHANGED running
    /\ UNCHANGED <<now, writable, ledgerVars, wizVars>>

\* menu:start, menu:status, menu:visits
on_menu(uid, item) ==
    /\ item \in {"menu:start", "menu:status", "menu:visits"}
    /\ IF find_customer_by_userid(customers, uid) = None
       THEN /\ ev' = Event(item, uid, EmptyStr, "not_linked")
            /\ UNCHANGED calcVars
       ELSE LET r == reset_calc_session(calc_store, jobs, uid)
            IN /\ calc_store' = r.store
               /\ jobs' = r.jobs
               /\ EndSession(uid)
               /\ ev' = Event(item, uid, EmptyStr, "main_menu")
               /\ UNCHANGED running
    /\ UNCHANGED <<now, writable, ledgerVars, wizVars>>

\* Whether the Bot API call that shows a handler's answer goes through: the
\* call raises when the chat is gone or the network fails.
Delivery == BOOLEAN

\* menu:calc
on_menu_calc(uid) ==
    /\ IF find_customer_by_userid(customers, uid) = None
       THEN /\ ev' = Event("menu:calc", uid, EmptyStr, "not_linked")
            /\ UNCHANGED calcVars
       ELSE LET r0 == reset_calc_session(calc_store, jobs, uid)
                r == start_or_restart_calc_session(r0.store, r0.jobs, uid, now)
            IN /\ calc_store' = r.store
               /\ jobs' = r.jobs
               /\ lastIssued' = [lastIssued EXCEPT ![uid] = r.session_id]
               /\ superseded' = [superseded EXCEPT ![uid] =
                      IF lastIssued[uid] = None THEN @ ELSE @ \cup {lastIssued[uid]}]
               /\ active' = [active EXCEPT ![uid] = TRUE]
               /\ \E shown \in Delivery :
                      ev' = Event("menu:calc", uid, r.session_id,
                                  IF shown THEN "dates_menu" ELSE "send_failed")
               /\ UNCHANGED running
    /\ UNCHANGED <<now, writable, ledgerVars, wizVars>>

\* The texts datetime.strptime(date_str, "%Y-%m-%d") parses.
IsoDates == {"2026-10-31", "2026-11-01"}

\* q.data.split(":") of a well-formed date and duration button.
DateData(session_id, date_str) == <<"date", session_id, date_str>>

TimeData(session_id, date_str, kind, duration) ==
    <<"time", session_id, date_str, kind, duration>>

\* The session id a callback carries, if it has that field.
SidOf(parts) == IF Len(parts) >= 2 THEN parts[2] ELSE EmptyStr

\* date:<session_id>:<date_iso|free>, parts = q.data.split(":")
on_date_choice(uid, parts) ==
    /\ IF Len(parts) < 3
       THEN /\ ev' = Event("date", uid, SidOf(parts), "bad_data")
            /\ UNCHANGED calcVars
       ELSE LET session_id == parts[2]
                date_str == parts[3]
            IN IF ~is_session_valid(calc_store, uid, session_id)
               THEN /\ ev' = Event("date", uid, session_id, "expired")
                    /\ UNCHANGED calcVars
               ELSE LET r == touch_calc_session(calc_store, jobs, uid, now)
                    IN /\ calc_store' = r.store
                       /\ jobs' = r.jobs
                       /\ IF date_str # "free" /\ date_str \notin IsoDates
                          THEN ev' = Event("date", uid, session_id, "error")
                          ELSE \E shown \in Delivery :
                                   ev' = Event("date", uid, session_id,
                                               IF shown THEN "duration_menu"
                                               ELSE "send_failed")
                       /\ UNCHANGED <<running, lastIssued, active, superseded>>
    /\ UNCHANGED <<now, writable, ledgerVars, wizVars>>

\* time:<session_id>:<date_iso|free>:<kind>:<duration>,
\* parts = q.data.split(":")
on_time_choice(uid, parts) ==
    /\ IF Len(parts) < 5
       THEN /\ ev' = Event("time", uid, SidOf(parts), "bad_data")
            /\ UNCHANGED calcVars
       ELSE LET session_id == parts[2]
                date_str == parts[3]
                kind == parts[4]
                duration == parts[5]
                t == touch_calc_session(calc_store, jobs, uid, now)
                r == reset_calc_session(t.store, t.jobs, uid)
            IN IF ~is_session_valid(calc_store, uid, session_id)
               THEN /\ ev' = Event("time", uid, session_id, "expired")
                    /\ UNCHANGED calcVars
               ELSE IF find_customer_by_userid(customers, uid) = None
               THEN /\ calc_store' = r.store
                    /\ jobs' = r.jobs
                    /\ EndSession(uid)
                    /\ ev' = Event("time", uid, session_id, "not_linked")
                    /\ UNCHANGED running
               ELSE IF \/ kind \notin Kinds
                       \/ duration \notin Durations
                       \/ date_str # "free" /\ date_str \notin IsoDates
               THEN /\ calc_store' = t.store
                    /\ jobs' = t.jobs
                    /\ ev' = Event("time", uid, session_id, "error")
                    /\ UNCHANGED <<running, lastIssued, active, superseded>>
               ELSE \E shown \in Delivery :
                        IF shown
                        THEN /\ calc_store' = r.store
                             /\ jobs' = r.jobs
                             /\ EndSession(uid)
                             /\ ev' = Event("time", uid, session_id, "price")
                             /\ UNCHANGED running
                        ELSE /\ calc_store' = t.store
                             /\ jobs' = t.jobs
                             /\ ev' = Event("time", uid, session_id, "send_failed")
                             /\ UNCHANGED <<running, lastIssued, active,
                                            superseded>>
    /\ UNCHANGED <<now, writable, ledgerVars, wizVars>>

\* The scheduler dispatches a due calc_timeout_<uid> job: the job leaves the
\* queue and its callback waits for the event loop.
TimerFire(uid) ==
    /\ jobs[uid] > 0
    /\ running[uid] < MaxRunning
    /\ jobs' = [jobs EXCEPT ![uid] = @ - 1]
    /\ running' = [running EXCEPT ![uid] = @ + 1]
    /\ ev' = Event("timer_fire", uid, EmptyStr, "none")
    /\ UNCHANGED <<calc_store, now, writable, lastIssued, active, superseded, ledgerVars,
                   wizVars>>

\* The session is popped only after the notice has been sent.
TimeoutJobPopsAfterNotice(uid) ==
    /\ running[uid] > 0
    /\ running' = [running EXCEPT ![uid] = @ - 1]
    /\ IF ~DictHas(calc_store, uid)
       THEN /\ ev' = Event("timeout_job", uid, EmptyStr, "none")
            /\ UNCHANGED <<calc_store, active>>
       ELSE \E sent \in Delivery :
                IF sent
                THEN /\ calc_store' = DictPop(calc_store, uid)
                     /\ active' = [active EXCEPT ![uid] = FALSE]
                     /\ ev' = Event("timeout_job", uid, EmptyStr, "timeout_notice")
                ELSE /\ ev' = Event("timeout_job", uid, EmptyStr, "notice_failed")
                     /\ UNCHANGED <<calc_store, active>>
    /\ UNCHANGED <<jobs, now, writable, lastIssued, superseded, ledgerVars, wizVars>>

TimeoutJobKeepsSession(uid) ==
    /\ running[uid] > 0
    /\ running' = [running EXCEPT ![uid] = @ - 1]
    /\ ev' = Event("timeout_job", uid, EmptyStr, "none")
    /\ UNCHANGED <<calc_store, active, jobs, now, writable, lastIssued, superseded,
                   ledgerVars, wizVars>>

_calc_timeout_job(uid) ==
    /\ running[uid] > 0
    /\ running' = [running EXCEPT ![uid] = @ - 1]
    /\ IF ~DictHas(calc_store, uid)
       THEN /\ ev' = Event("timeout_job", uid, EmptyStr, "none")
            /\ UNCHANGED <<calc_store, active>>
       ELSE /\ calc_store' = DictPop(calc_store, uid)
            /\ active' = [active EXCEPT ![uid] = FALSE]
            /\ \E sent \in Delivery :
                   ev' = Event("timeout_job", uid, EmptyStr,
                               IF sent THEN "timeout_notice" ELSE "notice_failed")
    /\ UNCHANGED <<jobs, now, writable, lastIssued, superseded, ledgerVars, wizVars>>

\* ------------------------------------------------ operator text commands
\* The operator's commands; each is answered to ADMIN_ID.  A link that
\* appends saves; one that finds the user already listed does not.
AdminEvent(op, reply) == Event(op, ADMIN_ID, EmptyStr, reply)

\* /create <name>
cmd_create(name, maxId) ==
    /\ IntOf(generate_customer_id(customers)) <= maxId
    /\ customers' = ensure_customer(customers, name)
    /\ disk' = save_data(customers', disk, writable)
    /\ everCids' = DOMAIN customers' \cup everCids
    /\ ev' = AdminEvent("/create", "created")
    /\ UNCHANGED <<calcVars, now, writable, wizVars>>

\* The unlink loop runs before the customer is looked up.
LinkStepUnlinksFirst(from_user, op, cid, uid) ==
    /\ IF cid \notin DOMAIN customers
       THEN /\ customers' = UnlinkEverywhere(customers, uid)
            /\ disk' = save_data(customers', disk, writable)
            /\ ev' = Event(op, from_user, EmptyStr, "not_found")
       ELSE /\ customers' = LinkUser(customers, cid, uid)
            /\ IF ~InSeq(uid, UnlinkEverywhere(customers, uid)[cid].ids)
               THEN /\ disk' = save_data(customers', disk, writable)
                    /\ ev' = Event(op, from_user, EmptyStr,
                                   IF IsIntText(uid) THEN "linked" ELSE "error")
               ELSE /\ UNCHANGED disk
                    /\ ev' = Event(op, from_user, EmptyStr, "already_linked")
    /\ UNCHANGED <<calcVars, now, writable, wizVars, everCids>>

\* The link steps shared by /link, /register and admin_quick_link, run for
\* an update of from_user.
LinkStepBy(from_user, op, cid, uid) ==
    /\ IF cid \notin DOMAIN customers
       THEN /\ ev' = Event(op, from_user, EmptyStr, "not_found")
            /\ UNCHANGED <<customers, disk>>
       ELSE /\ customers' = LinkUser(customers, cid, uid)
            /\ IF ~InSeq(uid, UnlinkEverywhere(customers, uid)[cid].ids)
               THEN /\ disk' = save_data(customers', disk, writable)
                    /\ ev' = Event(op, from_user, EmptyStr,
                                   IF IsIntText(uid) THEN "linked" ELSE "error")
               ELSE /\ UNCHANGED disk
                    /\ ev' = Event(op, from_user, EmptyStr, "already_linked")
    /\ UNCHANGED <<calcVars, now, writable, wizVars, everCids>>

LinkStep(op, cid, uid) == LinkStepBy(ADMIN_ID, op, cid, uid)

\* /link <cid> <uid>
cmd_link(cid, uid) == LinkStep("/link", cid, uid)

\* /register <uid> <cid>
cmd_register(uid, cid) == LinkStep("/register", cid, uid)

\* /unlink <cid> <uid>
cmd_unlink(cid, uid) ==
    /\ IF cid \notin DOMAIN customers
       THEN /\ ev' = AdminEvent("/unlink", "not_found")
            /\ UNCHANGED <<customers, disk>>
       ELSE IF InSeq(uid, customers[cid].ids)
       THEN /\ customers' = [customers EXCEPT ![cid].ids = RemoveFirst(@, uid)]
            /\ disk' = save_data(customers', disk, writable)
            /\ ev' = AdminEvent("/unlink", "unlinked")
       ELSE /\ ev' = AdminEvent("/unlink", "not_linked")
            /\ UNCHANGED <<customers, disk>>
    /\ UNCHANGED <<calcVars, now, writable, wizVars, everCids>>

\* /addsum <cid> <sum>
cmd_addsum(cid, summ) ==
    /\ IF cid \notin DOMAIN customers
       THEN /\ ev' = AdminEvent("/addsum", "not_found")
            /\ UNCHANGED <<customers, disk>>
       ELSE /\ customers' = [customers EXCEPT ![cid] =
                   recalc_discount([@ EXCEPT !.projects_sum = @ + summ])]
            /\ disk' = save_data(customers', disk, writable)
            /\ ev' = AdminEvent("/addsum", "done")
    /\ UNCHANGED <<calcVars, now, writable, wizVars, everCids>>

\* /setsum <cid> <sum>
cmd_setsum(cid, summ) ==
    /\ IF cid \notin DOMAIN customers
       THEN /\ ev' = AdminEvent("/setsum", "not_found")
            /\ UNCHANGED <<customers, disk>>
       ELSE /\ customers' = [customers EXCEPT ![cid] =
                   recalc_discount([@ EXCEPT !.projects_sum = summ])]
            /\ disk' = save_data(customers', disk, writable)
            /\ ev' = AdminEvent("/setsum", "done")
    /\ UNCHANGED <<calcVars, now, writable, wizVars, everCids>>

\* /remove <cid>
cmd_remove(cid) ==
    /\ IF cid \notin DOMAIN customers
       THEN /\ ev' = AdminEvent("/remove", "not_found")
            /\ UNCHANGED <<customers, disk>>
       ELSE /\ customers' = DelCustomer(customers, cid)
            /\ disk' = save_data(customers', disk, writable)
            /\ ev' = AdminEvent("/remove", "removed")
    /\ UNCHANGED <<calcVars, now, writable, wizVars, everCids>>

\* /clearvisits <cid>
cmd_clearvisits(cid) ==
    /\ IF cid \notin DOMAIN customers
       THEN /\ ev' = AdminEvent("/clearvisits", "not_found")
            /\ UNCHANGED <<customers, disk>>
       ELSE /\ customers' = [customers EXCEPT ![cid] =
                   recalc_discount([@ EXCEPT !.visits = <<>>])]
            /\ disk' = save_data(customers', disk, writable)
            /\ ev' = AdminEvent("/clearvisits", "done")
    /\ UNCHANGED <<calcVars, now, writable, wizVars, everCids>>

\* ------------------------------------------------- the visit category
\* date_obj in RU_HOLIDAYS, for the calendar hol.
is_holiday(date_obj, hol) == date_obj \in hol

\* Today comes before the holiday.
ClassifyTodayFirst(selected_date, today, hour, hol) ==
    IF selected_date = today THEN "urgent_today"
    ELSE IF is_holiday(selected_date, hol) THEN "holiday"
    ELSE IF selected_date = today + 1 /\ hour >= 17 THEN "urgent_tomorrow"
    ELSE "exact"

\* today = now_msk().date() and hour = now_msk().hour: both reads of the
\* clock in one call fall on the same instant.
classify_kind(selected_date, today, hour, hol) ==
    IF is_holiday(selected_date, hol) THEN "holiday"
    ELSE IF selected_date = today THEN "urgent_today"
    ELSE IF selected_date = today + 1 /\ hour >= 17 THEN "urgent_tomorrow"
    ELSE "exact"

\* ---------------------------------------------------- the tariff tables
\* The discount table with the night prices of the standard one.
TariffsNightNotLowered ==
    [k \in Kinds |->
        CASE k = "free" ->
               ("4" :> 20000 @@ "8" :> 23000 @@ "night_4" :> 35000 @@ "night_8" :> 40000)
          [] k = "exact" ->
               ("4" :> 22000 @@ "8" :> 25000 @@ "night_4" :> 35000 @@ "night_8" :> 40000)
          [] k = "urgent_tomorrow" ->
               ("4" :> 25000 @@ "8" :> 27000 @@ "night_4" :> 35000 @@ "night_8" :> 40000)
          [] k = "urgent_today" ->
               ("4" :> 27000 @@ "8" :> 30000 @@ "night_4" :> 35000 @@ "night_8" :> 40000)
          [] k = "holiday" ->
               ("4" :> 35000 @@ "8" :> 35000 @@ "night_4" :> 40000 @@ "night_8" :> 45000)]

TARIFFS_DISCOUNT ==
    [k \in Kinds |->
        CASE k = "free" ->
               ("4" :> 20000 @@ "8" :> 23000 @@ "night_4" :> 27000 @@ "night_8" :> 30000)
          [] k = "exact" ->
               ("4" :> 22000 @@ "8" :> 25000 @@ "night_4" :> 27000 @@ "night_8" :> 30000)
          [] k = "urgent_tomorrow" ->
               ("4" :> 25000 @@ "8" :> 27000 @@ "night_4" :> 27000 @@ "night_8" :> 30000)
          [] k = "urgent_today" ->
               ("4" :> 27000 @@ "8" :> 30000 @@ "night_4" :> 27000 @@ "night_8" :> 30000)
          [] k = "holiday" ->
               ("4" :> 35000 @@ "8" :> 35000 @@ "night_4" :> 35000 @@ "night_8" :> 35000)]

TARIFFS_STANDARD ==
    [k \in Kinds |->
        CASE k = "free" ->
               ("4" :> 22000 @@ "8" :> 25000 @@ "night_4" :> 35000 @@ "night_8" :> 40000)
          [] k = "exact" ->
               ("4" :> 25000 @@ "8" :> 30000 @@ "night_4" :> 35000 @@ "night_8" :> 40000)
          [] k = "urgent_tomorrow" ->
               ("4" :> 30000 @@ "8" :> 35000 @@ "night_4" :> 35000 @@ "night_8" :> 40000)
          [] k = "urgent_today" ->
               ("4" :> 35000 @@ "8" :> 40000 @@ "night_4" :> 35000 @@ "night_8" :> 40000)
          [] k = "holiday" ->
               ("4" :> 40000 @@ "8" :> 45000 @@ "night_4" :> 40000 @@ "night_8" :> 45000)]

\* The price is read from the standard table whatever the flag.
CalcPriceIgnoresDiscount(kind, duration, discount) ==
    TARIFFS_STANDARD[kind][duration]

calc_price(kind, duration, discount) ==
    LET prices == IF discount THEN TARIFFS_DISCOUNT ELSE TARIFFS_STANDARD
    IN prices[kind][duration]

\* --------------------------------------------------- user_data, the draft
\* user_data and the draft user_data['admin_visit'] are Python dicts: a
\* function on the keys present.
EmptyDict == [k \in {} |-> None]

Has(d, k) == k \in DOMAIN d

Put(d, k, v) == [x \in DOMAIN d \cup {k} |-> IF x = k THEN v ELSE d[x]]

Drop(d, k) == [x \in DOMAIN d \ {k} |-> d[x]]

\* d.get(k)
Get(d, k) == IF k \in DOMAIN d THEN d[k] ELSE None

HasDraft(ud) == Has(ud, "admin_visit")

\* 'k' in user_data['admin_visit'], false without a draft
DraftHas(ud, k) == HasDraft(ud) /\ Has(ud["admin_visit"], k)

\* user_data['admin_visit'][k] = v
PutDraft(ud, k, v) == Put(ud, "admin_visit", Put(ud["admin_visit"], k, v))

\* user_data['admin_visit'] = {}; then cid
NewDraft(ud, cid) == Put(ud, "admin_visit", Put(EmptyDict, "cid", cid))

\* The conversation states; END is "no conversation".
END == "END"

\* What one handler run leaves: the conversation state it returns,
\* user_data, the ledger, whether save_data ran, and the answer shown.
Outcome(st, ud, cs, saved, reply) ==
    [conv |-> st, user_data |-> ud, customers |-> cs, saved |-> saved,
     reply |-> reply]

\* The handler raises, or returns None: the conversation keeps state st.
Raise(st, ud, cs) == Outcome(st, ud, cs, FALSE, "error")

\* The draft of new holds a price that replaced a different price of the
\* draft of old, now or earlier (was).
Repriced(old, new, was) ==
    IF ~DraftHas(new, "price") THEN FALSE
    ELSE IF ~DraftHas(old, "price") THEN FALSE
    ELSE was \/ old["admin_visit"]["price"] # new["admin_visit"]["price"]

\* The states of one pass of the add-visit wizard.
PassStates ==
    {"SELECT_DATE", "SELECT_KIND", "SELECT_DURATION", "SELECT_TARIFF_TYPE",
     "CONFIRM_VISIT"}

\* The draft fields the handler of state st writes when it takes pick op.
PickWrites(op, st) ==
    IF st = "SELECT_DATE" /\ op = "admin_date" THEN {"date"}
    ELSE IF st = "SELECT_KIND" /\ op = "admin_kind" THEN {"kind"}
    ELSE IF st = "SELECT_DURATION" /\ op = "admin_duration" THEN {"duration"}
    ELSE IF st = "SELECT_TARIFF_TYPE" /\ op = "admin_tariff"
    THEN {"tariff_type", "price"}
    ELSE {}

\* The fields of the draft of r that a pick has written since the date
\* keyboard was last shown: was, and what the run of op from state st wrote.
\* A tariff pick that raises is not counted as having written the price.
Picked(op, st, r, was) ==
    IF r.conv = "SELECT_DATE" \/ r.conv \notin PassStates THEN {}
    ELSE {k \in was \cup PickWrites(op, st) :
            /\ DraftHas(r.user_data, k)
            /\ (k = "price" /\ k \notin was) => r.reply # "error"}

\* One update handled by a wizard handler.
Run(op, r) ==
    /\ conv' = r.conv
    /\ user_data' = r.user_data
    /\ repriced' = Repriced(user_data, r.user_data, repriced)
    /\ picked' = Picked(op, conv, r, picked)
    /\ customers' = r.customers
    /\ disk' = IF r.saved THEN save_data(r.customers, disk, writable) ELSE disk
    /\ everCids' = everCids \cup DOMAIN r.customers
    /\ ev' = AdminEvent(op, r.reply)
    /\ UNCHANGED <<calcVars, now, writable, guest>>

\* One update of actor a, who is not the operator, handled by a handler of
\* the wizard: the conversation and user_data are a's own.
GuestRun(a, op, r) ==
    /\ guest' = [guest EXCEPT ![a] = [conv |-> r.conv, user_data |-> r.user_data]]
    /\ customers' = r.customers
    /\ disk' = IF r.saved THEN save_data(r.customers, disk, writable) ELSE disk
    /\ everCids' = everCids \cup DOMAIN r.customers
    /\ ev' = Event(op, a, EmptyStr, r.reply)
    /\ UNCHANGED <<calcVars, now, writable, conv, user_data, repriced, picked>>

\* ----------------------------------------------------- wizard handlers
\* Each handler is the outcome of one run from conversation state st with
\* user_data ud and ledger cs.  A callback payload "prefix:a:b" is passed as
\* its parts.

\* cmd_admin: a text command drops pending_link_user_id; the draft is
\* dropped either way.
cmd_admin(ud, is_callback) ==
    LET u1 == IF is_callback THEN ud ELSE Drop(ud, "pending_link_user_id")
    IN Drop(u1, "admin_visit")

\* admin_panel, admin_panel_link:<user_id>
admin_open_panel(ud, link_uid) ==
    LET u1 == IF link_uid # None THEN Put(ud, "pending_link_user_id", link_uid)
              ELSE ud
    IN cmd_admin(u1, TRUE)

CancelKeepsState(st, ud, cs, data, cid) ==
    IF data = "admin_cancel" THEN Outcome(st, ud, cs, FALSE, "cancelled")
    ELSE IF data = "admin_create_customer"
    THEN Outcome("CREATE_CUSTOMER", ud, cs, FALSE, "ask_name")
    ELSE IF data = "admin_find_customer"
    THEN Outcome("FIND_CUSTOMER", ud, cs, FALSE, "ask_uid")
    ELSE IF cid \notin DOMAIN cs THEN Raise(st, NewDraft(ud, cid), cs)
    ELSE Outcome("SELECT_ACTION",
                 PutDraft(NewDraft(ud, cid), "customer_name", cs[cid].name),
                 cs, FALSE, "actions_menu")

\* admin_cancel, admin_create_customer, admin_find_customer,
\* admin_customer:<cid>; any other payload is split the same way.
admin_select_customer(st, ud, cs, data, cid) ==
    IF data = "admin_cancel" THEN Outcome(END, ud, cs, FALSE, "cancelled")
    ELSE IF data = "admin_create_customer"
    THEN Outcome("CREATE_CUSTOMER", ud, cs, FALSE, "ask_name")
    ELSE IF data = "admin_find_customer"
    THEN Outcome("FIND_CUSTOMER", ud, cs, FALSE, "ask_uid")
    ELSE IF cid \notin DOMAIN cs THEN Raise(st, NewDraft(ud, cid), cs)
    ELSE Outcome("SELECT_ACTION",
                 PutDraft(NewDraft(ud, cid), "customer_name", cs[cid].name),
                 cs, FALSE, "actions_menu")

\* text.strip() of a message
Strip(text) == IF text = " " THEN EmptyStr ELSE text

admin_create_customer_handler(st, ud, cs, text) ==
    IF Strip(text) = EmptyStr
    THEN Outcome("CREATE_CUSTOMER", ud, cs, FALSE, "empty_name")
    ELSE Outcome("SELECT_CUSTOMER", ud, ensure_customer(cs, Strip(text)), TRUE,
                 "created")

\* The first record, in dict order, whose ids hold the text.
FindByIdText(cs, uid) ==
    LET hit == {c \in DOMAIN cs : InSeq(uid, cs[c].ids)}
    IN IF hit = {} THEN None
       ELSE CHOOSE c \in hit : \A d \in hit : IntOf(c) <= IntOf(d)

admin_find_customer_handler(st, ud, cs, uid) ==
    LET found_cid == FindByIdText(cs, uid)
    IN IF found_cid = None
       THEN Outcome("SELECT_CUSTOMER", ud, cs, FALSE, "not_found")
       ELSE Outcome("SELECT_ACTION",
                    PutDraft(NewDraft(ud, found_cid), "customer_name",
                             cs[found_cid].name),
                    cs, FALSE, "actions_menu")

\* visits.pop(i), 0-based
PopVisit(visits, i) == SubSeq(visits, 1, i) \o SubSeq(visits, i + 2, Len(visits))

\* The branches of admin_select_action that start with a ledger lookup of
\* the payload's cid: admin_delete_visit, admin_delete_all,
\* admin_unlink_specific, admin_add_amount, admin_reset_sum.
SelectActionLedger(st, ud, cs, data, cid, arg) ==
    IF cid \notin DOMAIN cs THEN Raise(st, ud, cs)
    ELSE IF data = "admin_delete_visit"
    THEN IF 0 <= arg /\ arg < Len(cs[cid].visits)
         THEN Outcome("SELECT_ACTION", ud,
                      [cs EXCEPT ![cid] =
                          recalc_discount([@ EXCEPT !.visits = PopVisit(@, arg)])],
                      TRUE, "visit_deleted")
         ELSE Outcome("SELECT_ACTION", ud, cs, FALSE, "visit_not_found")
    ELSE IF data = "admin_delete_all"
    THEN Outcome("SELECT_ACTION", ud,
                 [cs EXCEPT ![cid] = recalc_discount([@ EXCEPT !.visits = <<>>])],
                 TRUE, "visits_deleted")
    ELSE IF data = "admin_unlink_specific"
    THEN IF InSeq(arg, cs[cid].ids)
         THEN Outcome("SELECT_ACTION", ud,
                      [cs EXCEPT ![cid].ids = RemoveFirst(@, arg)], TRUE, "unlinked")
         ELSE Outcome("SELECT_ACTION", ud, cs, FALSE, "not_linked")
    ELSE IF data = "admin_add_amount"
    THEN Outcome("SELECT_ACTION", ud,
                 [cs EXCEPT ![cid] =
                     recalc_discount([@ EXCEPT !.projects_sum = @ + arg])],
                 TRUE, "sum_added")
    ELSE Outcome("SELECT_ACTION", ud,
                 [cs EXCEPT ![cid] = recalc_discount([@ EXCEPT !.projects_sum = 0])],
                 TRUE, "sum_reset")

\* admin_action:<action>:<cid>, after the draft took cid and customer_name.
SelectActionMenu(st, ud, cs, action, cid) ==
    IF action \in {"back", "tariff", "visits", "users", "projects"}
    THEN Outcome("SELECT_ACTION", ud, cs, FALSE, action)
    ELSE IF action = "add_visit"
    THEN Outcome("SELECT_DATE", ud, cs, FALSE, "dates_menu")
    ELSE IF action = "remove"
    THEN Outcome(END, ud, DelCustomer(cs, cid), TRUE, "removed")
    ELSE IF action = "clear_visits"
    THEN Outcome("SELECT_ACTION", ud,
                 [cs EXCEPT ![cid] = recalc_discount([@ EXCEPT !.visits = <<>>])],
                 TRUE, "visits_cleared")
    ELSE Outcome(st, ud, cs, FALSE, "none")

\* admin_link_user:<cid>, admin_set_exact:<cid> and every payload that is
\* not admin_action: the draft's own cid is looked up first.
SelectActionOther(st, ud, cs, data, cid) ==
    LET dcid == IF DraftHas(ud, "cid") THEN ud["admin_visit"]["cid"] ELSE None
    IN IF dcid # None /\ dcid \notin DOMAIN cs THEN Raise(st, ud, cs)
       ELSE LET u1 == IF dcid = None THEN ud
                      ELSE PutDraft(ud, "customer_name", cs[dcid].name)
            IN IF data = "admin_link_user"
               THEN Outcome("LINK_USER", Put(u1, "link_cid", cid), cs, FALSE,
                            "ask_uid")
               ELSE IF data = "admin_set_exact"
               THEN Outcome("SET_SUM", Put(u1, "set_sum_cid", cid), cs, FALSE,
                            "ask_sum")
               ELSE Outcome(st, u1, cs, FALSE, "none")

LedgerPayloads ==
    {"admin_delete_visit", "admin_delete_all", "admin_unlink_specific",
     "admin_add_amount", "admin_reset_sum"}

admin_select_action(st, ud, cs, data, action, cid, arg) ==
    IF data \in LedgerPayloads THEN SelectActionLedger(st, ud, cs, data, cid, arg)
    ELSE IF data = "admin_action"
    THEN IF ~HasDraft(ud) THEN Raise(st, ud, cs)
         ELSE IF cid \notin DOMAIN cs THEN Raise(st, PutDraft(ud, "cid", cid), cs)
         ELSE SelectActionMenu(st,
                  PutDraft(PutDraft(ud, "cid", cid), "customer_name", cs[cid].name),
                  cs, action, cid)
    ELSE SelectActionOther(st, ud, cs, data, cid)

admin_link_user_handler(st, ud, cs, uid) ==
    LET cid == Get(ud, "link_cid")
    IN IF cid = None \/ cid \notin DOMAIN cs
       THEN Outcome("LINK_USER", ud, cs, FALSE, "not_found")
       ELSE IF ~InSeq(uid, UnlinkEverywhere(cs, uid)[cid].ids)
       THEN Outcome(IF IsIntText(uid) THEN "SELECT_ACTION" ELSE "LINK_USER",
                    ud, LinkUser(cs, cid, uid), TRUE,
                    IF IsIntText(uid) THEN "linked" ELSE "error")
       ELSE Outcome("SELECT_ACTION", ud, LinkUser(cs, cid, uid), FALSE,
                    "already_linked")

\* A text that is no number is read as 0.
SetSumReadsZero(st, ud, cs, is_number, amount) ==
    LET cid == Get(ud, "set_sum_cid")
        n == IF is_number THEN amount ELSE 0
    IN IF cid = None \/ cid \notin DOMAIN cs
       THEN Outcome("SET_SUM", ud, cs, FALSE, "not_found")
       ELSE Outcome("SELECT_ACTION", ud,
                    [cs EXCEPT ![cid] =
                        recalc_discount([@ EXCEPT !.projects_sum = n])],
                    TRUE, IF is_number THEN "sum_set" ELSE "not_a_number")

\* The text is a number (is_number) with value amount, or is not.
admin_set_sum_handler(st, ud, cs, is_number, amount) ==
    LET cid == Get(ud, "set_sum_cid")
    IN IF ~is_number THEN Outcome("SET_SUM", ud, cs, FALSE, "not_a_number")
       ELSE IF cid = None \/ cid \notin DOMAIN cs
       THEN Outcome("SET_SUM", ud, cs, FALSE, "not_found")
       ELSE Outcome("SELECT_ACTION", ud,
                    [cs EXCEPT ![cid] =
                        recalc_discount([@ EXCEPT !.projects_sum = amount])],
                    TRUE, "sum_set")

\* ----------------------------------------------------- the visit pipeline
\* admin_date:back:<cid>, admin_date:<date>
admin_select_date(st, ud, cs, arg, cid) ==
    IF arg = "back"
    THEN IF cid \notin DOMAIN cs THEN Raise(st, ud, cs)
         ELSE Outcome("SELECT_ACTION", ud, cs, FALSE, "actions_menu")
    ELSE IF ~HasDraft(ud) THEN Raise(st, ud, cs)
    ELSE Outcome("SELECT_KIND", PutDraft(ud, "date", arg), cs, FALSE, "kind_menu")

\* admin_kind:back, admin_kind:<kind>
admin_select_kind(st, ud, cs, arg) ==
    IF arg = "back"
    THEN IF ~DraftHas(ud, "cid") THEN Raise(st, ud, cs)
         ELSE Outcome("SELECT_DATE", ud, cs, FALSE, "dates_menu")
    ELSE IF ~HasDraft(ud) THEN Raise(st, ud, cs)
    ELSE IF ~DraftHas(ud, "date") THEN Raise(st, PutDraft(ud, "kind", arg), cs)
    ELSE Outcome("SELECT_DURATION", PutDraft(ud, "kind", arg), cs, FALSE,
                 "duration_menu")

\* admin_duration:back, admin_duration:<duration>
\* The duration pick shows the confirm screen at once.
DurationPickConfirms(st, ud, cs, arg) ==
    IF arg = "back" THEN Outcome("SELECT_KIND", ud, cs, FALSE, "kind_menu")
    ELSE IF ~HasDraft(ud) THEN Raise(st, ud, cs)
    ELSE Outcome("CONFIRM_VISIT", PutDraft(ud, "duration", arg), cs, FALSE,
                 "confirm_menu")

admin_select_duration(st, ud, cs, arg) ==
    IF arg = "back" THEN Outcome("SELECT_KIND", ud, cs, FALSE, "kind_menu")
    ELSE IF ~HasDraft(ud) THEN Raise(st, ud, cs)
    ELSE Outcome("SELECT_TARIFF_TYPE", PutDraft(ud, "duration", arg), cs, FALSE,
                 "tariff_menu")

KeepStalePrice(ud, price) ==
    IF DraftHas(ud, "price") THEN ud ELSE PutDraft(ud, "price", price)

\* user_data['admin_visit']['price'] = price
StagePrice(ud, price) == PutDraft(ud, "price", price)

TariffPickCommits(st, ud, cs, arg) ==
    IF arg = "back" THEN Outcome("SELECT_DURATION", ud, cs, FALSE, "duration_menu")
    ELSE IF ~(\A k \in {"cid", "date", "kind", "duration"} : DraftHas(ud, k))
    THEN Raise(st, ud, cs)
    ELSE IF ud["admin_visit"]["cid"] \notin DOMAIN cs THEN Raise(st, ud, cs)
    ELSE LET d == ud["admin_visit"]
             price == calc_price(d["kind"], d["duration"], arg = "discount")
         IN Outcome(END, PutDraft(PutDraft(ud, "tariff_type", arg), "price", price),
                    [cs EXCEPT ![d["cid"]].visits =
                        Append(@, [date |-> d["date"], kind |-> d["kind"],
                                   duration |-> d["duration"], price |-> price,
                                   tariff_type |-> arg])],
                    TRUE, "visit_added")

\* admin_tariff:back, admin_tariff:<discount|standard>
admin_select_tariff_type(st, ud, cs, arg) ==
    IF arg = "back" THEN Outcome("SELECT_DURATION", ud, cs, FALSE, "duration_menu")
    ELSE IF ~HasDraft(ud) THEN Raise(st, ud, cs)
    ELSE LET u1 == PutDraft(ud, "tariff_type", arg)
             d == u1["admin_visit"]
         IN IF ~(Has(d, "cid") /\ Has(d, "kind") /\ Has(d, "duration"))
            THEN Raise(st, u1, cs)
            ELSE LET u2 == StagePrice(u1, calc_price(d["kind"], d["duration"],
                                                     arg = "discount"))
                 IN IF ~(Has(d, "date") /\ Has(d, "customer_name"))
                    THEN Raise(st, u2, cs)
                    ELSE Outcome("CONFIRM_VISIT", u2, cs, FALSE, "confirm_menu")

\* visit_data, built from the draft
VisitData(d) ==
    [date |-> d["date"], kind |-> d["kind"], duration |-> d["duration"],
     price |-> d["price"], tariff_type |-> d["tariff_type"]]

\* data["customers"][cid]["visits"].append(visit_data); recalc_discount
AppendVisit(cs, cid, visit) ==
    [cs EXCEPT ![cid] = recalc_discount([@ EXCEPT !.visits = Append(@, visit)])]

DraftKeys == {"cid", "date", "kind", "duration", "price", "tariff_type"}

ConfirmCommitsPartial(st, ud, cs, arg) ==
    IF arg = "back"
    THEN Outcome("SELECT_TARIFF_TYPE", ud, cs, FALSE, "tariff_menu")
    ELSE IF arg = "yes"
    THEN IF ~DraftHas(ud, "cid") THEN Raise(st, ud, cs)
         ELSE IF ud["admin_visit"]["cid"] \notin DOMAIN cs THEN Raise(st, ud, cs)
         ELSE Outcome(END, ud,
                      AppendVisit(cs, ud["admin_visit"]["cid"],
                                  [k \in DOMAIN ud["admin_visit"]
                                          \cap (DraftKeys \ {"cid"})
                                      |-> ud["admin_visit"][k]]),
                      TRUE, "visit_added")
    ELSE Outcome(st, ud, cs, FALSE, "none")

\* admin_confirm:back, admin_confirm:yes
admin_confirm_visit(st, ud, cs, arg) ==
    IF arg = "back"
    THEN Outcome("SELECT_TARIFF_TYPE", ud, cs, FALSE, "tariff_menu")
    ELSE IF arg = "yes"
    THEN IF ~(\A k \in DraftKeys : DraftHas(ud, k)) THEN Raise(st, ud, cs)
         ELSE IF ud["admin_visit"]["cid"] \notin DOMAIN cs THEN Raise(st, ud, cs)
         ELSE Outcome(END, ud,
                      AppendVisit(cs, ud["admin_visit"]["cid"],
                                  VisitData(ud["admin_visit"])),
                      TRUE, "visit_added")
    ELSE Outcome(st, ud, cs, FALSE, "none")

\* ------------------------------------------------------- wizard actions
\* The dispatch of main(): the handlers of group 0 are tried in the order
\* they were added and the first match handles the update.  The
\* conversation tries its entry points first in every state
\* (allow_reentry), then the handlers of its current state.

\* /admin and /addvisit enter the conversation; /addvist is taken by the
\* plain handler added before the conversation, which leaves its state.
CmdAdmin(command) ==
    /\ command \in {"/admin", "/addvisit", "/addvist"}
    /\ Run(command,
           Outcome(IF command = "/addvist" THEN conv ELSE "SELECT_CUSTOMER",
                   cmd_admin(user_data, FALSE), customers, FALSE, "panel"))

\* admin_panel and admin_panel_link:<uid> are taken by the plain handler
\* added before the conversation.
AdminOpenPanel(link_uid) ==
    Run("admin_panel",
        Outcome(conv, admin_open_panel(user_data, link_uid), customers, FALSE,
                "panel"))

\* admin_quick_link:<cid>:<user_id>, a plain handler.
admin_quick_link(cid, user_id) ==
    /\ LinkStep("admin_quick_link", cid, user_id)

EntryCustomerPayloads ==
    {"admin_customer", "admin_create_customer", "admin_find_customer",
     "admin_cancel"}

AdminSelectCustomer(data, cid) ==
    /\ \/ data \in EntryCustomerPayloads
       \/ conv = "SELECT_CUSTOMER"
    /\ Run(data, admin_select_customer(conv, user_data, customers, data, cid))

AdminCreateCustomerHandler(text, maxId) ==
    /\ conv = "CREATE_CUSTOMER"
    /\ IntOf(generate_customer_id(customers)) <= maxId
    /\ Run("text:name",
           admin_create_customer_handler(conv, user_data, customers, text))

AdminFindCustomerHandler(uid) ==
    /\ conv = "FIND_CUSTOMER"
    /\ Run("text:find", admin_find_customer_handler(conv, user_data, customers, uid))

\* Every payload admin_select_action is an entry point for; any other
\* admin_ payload reaches it in state SELECT_ACTION only.
EntryActionPayloads ==
    LedgerPayloads \cup
    {"admin_action", "admin_link_user", "admin_set_exact", "admin_user_info",
     "admin_visit_info"}

AdminSelectAction(data, action, cid, arg) ==
    /\ \/ data \in EntryActionPayloads
       \/ conv = "SELECT_ACTION"
    /\ Run(IF data = "admin_action" THEN action ELSE data,
           admin_select_action(conv, user_data, customers, data, action, cid, arg))

AdminLinkUserHandler(uid) ==
    /\ conv = "LINK_USER"
    /\ Run("text:link", admin_link_user_handler(conv, user_data, customers, uid))

AdminSetSumHandler(is_number, amount) ==
    /\ conv = "SET_SUM"
    /\ Run("text:sum",
           admin_set_sum_handler(conv, user_data, customers, is_number, amount))

AdminSelectDate(arg, cid) ==
    /\ conv = "SELECT_DATE"
    /\ Run(IF arg = "back" THEN "admin_date:back" ELSE "admin_date",
           admin_select_date(conv, user_data, customers, arg, cid))

AdminSelectKind(arg) ==
    /\ conv = "SELECT_KIND"
    /\ Run(IF arg = "back" THEN "admin_kind:back" ELSE "admin_kind",
           admin_select_kind(conv, user_data, customers, arg))

AdminSelectDuration(arg) ==
    /\ conv = "SELECT_DURATION"
    /\ Run(IF arg = "back" THEN "admin_duration:back" ELSE "admin_duration",
           admin_select_duration(conv, user_data, customers, arg))

AdminSelectTariffType(arg) ==
    /\ conv = "SELECT_TARIFF_TYPE"
    /\ Run(IF arg = "back" THEN "admin_tariff:back" ELSE "admin_tariff",
           admin_select_tariff_type(conv, user_data, customers, arg))

AdminConfirmVisit(arg) ==
    /\ conv = "CONFIRM_VISIT"
    /\ Run(IF arg = "back" THEN "admin_confirm:back" ELSE "admin_confirm:yes",
           admin_confirm_visit(conv, user_data, customers, arg))

\* ------------------------------------------- updates of the other actors
\* An update of actor a, who is not ADMIN_ID, goes through the same
\* dispatch; a's conversation is a's own.

\* A text command whose handler returns at its ADMIN_ID check.  /admin and
\* /addvisit are entry points, and the END they return ends a's conversation.
GuestCommand(a, command) ==
    GuestRun(a, command,
             Outcome(IF command \in {"/admin", "/addvisit"} THEN END
                     ELSE guest[a].conv,
                     guest[a].user_data, customers, FALSE, "none"))

\* admin_panel: the plain handler returns at its ADMIN_ID check.
GuestOpenPanel(a) ==
    GuestRun(a, "admin_panel",
             Outcome(guest[a].conv, guest[a].user_data, customers, FALSE, "none"))

\* admin_select_customer returns END at its ADMIN_ID check.
GuestSelectCustomer(a, data) ==
    /\ \/ data \in EntryCustomerPayloads
       \/ guest[a].conv = "SELECT_CUSTOMER"
    /\ GuestRun(a, data, Outcome(END, guest[a].user_data, customers, FALSE, "none"))

\* admin_quick_link:<cid>:<user_id> reads no from_user.
GuestQuickLink(a, cid, user_id) == LinkStepBy(a, "admin_quick_link", cid, user_id)

\* admin_select_action reads no from_user.
GuestSelectAction(a, data, action, cid, arg) ==
    /\ \/ data \in EntryActionPayloads
       \/ guest[a].conv = "SELECT_ACTION"
    /\ GuestRun(a, IF data = "admin_action" THEN action ELSE data,
                admin_select_action(guest[a].conv, guest[a].user_data, customers,
                                    data, action, cid, arg))

\* The text handlers of LINK_USER and SET_SUM read no from_user.
GuestLinkUserHandler(a, uid) ==
    /\ guest[a].conv = "LINK_USER"
    /\ GuestRun(a, "text:link",
                admin_link_user_handler(guest[a].conv, guest[a].user_data,
                                        customers, uid))

GuestSetSumHandler(a, is_number, amount) ==
    /\ guest[a].conv = "SET_SUM"
    /\ GuestRun(a, "text:sum",
                admin_set_sum_handler(guest[a].conv, guest[a].user_data, customers,
                                      is_number, amount))

\* ------------------------------------------------------------------- Init
Init ==
    /\ customers = NoCustomers
    /\ disk = NoCustomers
    /\ writable = TRUE
    /\ calc_store = {}
    /\ jobs = [a \in Actors |-> 0]
    /\ running = [a \in Actors |-> 0]
    /\ now = 1
    /\ lastIssued = [a \in Actors |-> None]
    /\ active = [a \in Actors |-> FALSE]
    /\ superseded = [a \in Actors |-> {}]
    /\ conv = END
    /\ user_data = EmptyDict
    /\ guest = [a \in Actors |-> [conv |-> END, user_data |-> EmptyDict]]
    /\ everCids = {}
    /\ repriced = FALSE
    /\ picked = {}
    /\ ev = Event("init", 0, EmptyStr, "none")

\* The customer ids and user ids the operator types or a button carries.
CidInputs == {Str(n) : n \in 1..MaxId}

UidInputs == {Str(a) : a \in Actors}

\* ------------------------------------------- the quote-session behaviours
\* Customers are created and actors linked by command; every quote-flow
\* update and both scheduler steps may happen in any order.
NextCalc ==
    \/ Tick
    \/ cmd_create("Acme", 1)
    \/ \E u \in UidInputs : cmd_link("1", u)
    \/ \E a \in Actors : start(a)
    \/ \E a \in Actors : \E item \in {"menu:start", "menu:status", "menu:visits"} :
           on_menu(a, item)
    \/ \E a \in Actors : on_menu_calc(a)
    \/ \E a \in Actors : \E s \in Issued(a) :
           on_date_choice(a, DateData(s, "2026-10-31"))
    \/ \E a \in Actors : \E s \in Issued(a) :
           on_time_choice(a, TimeData(s, "2026-10-31", "exact", "4"))
    \/ \E a \in Actors : TimerFire(a)
    \/ \E a \in Actors : _calc_timeout_job(a)

SpecCalc == Init /\ [][NextCalc]_vars

\* ------------------------------------------------ the wizard behaviours
\* No record holds MaxVisits visits yet.
VisitsBelow(n) == \A c \in DOMAIN customers : Len(customers[c].visits) < n

\* The operator creates and removes customers by command, opens the panel
\* by command or button, and presses any button of any keyboard shown so
\* far: a button of an earlier message stays pressable.  One date, one
\* category, one duration and one tariff type are picked.
NextWizard ==
    \/ cmd_create("Acme", MaxId)
    \/ \E c \in everCids : cmd_remove(c)
    \/ \E command \in {"/admin", "/addvist"} : CmdAdmin(command)
    \/ AdminOpenPanel(None)
    \/ \E c \in everCids : AdminSelectCustomer("admin_customer", c)
    \/ AdminSelectCustomer("admin_cancel", None)
    \/ AdminSelectCustomer("admin_confirm", "yes")
    \/ AdminSelectCustomer("admin_create_customer", None)
    \/ \E text \in {"Acme", " "} : AdminCreateCustomerHandler(text, MaxId)
    \/ \E c \in everCids : AdminSelectAction("admin_action", "add_visit", c, 0)
    \/ \E c \in everCids : \E d \in {"2026-10-31", "back"} : AdminSelectDate(d, c)
    \/ \E k \in {"exact", "back"} : AdminSelectKind(k)
    \/ \E d \in {"4", "back"} : AdminSelectDuration(d)
    \/ \E t \in {"standard", "back"} : AdminSelectTariffType(t)
    \/ AdminConfirmVisit("back")
    \/ VisitsBelow(MaxVisits) /\ AdminConfirmVisit("yes")

SpecWizard == Init /\ [][NextWizard]_vars

\* ------------------------------------------------- the pricing behaviours
WizKinds == {"exact", "holiday"}

WizDurations == {"4", "night_8"}

WizTariffs == {"discount", "standard"}

\* One customer; the operator walks the pipeline forwards and backwards
\* with two categories, two durations and both tariff types, and may drop
\* the draft with /addvist on the way.
NextPrice ==
    \/ cmd_create("Acme", 1)
    \/ CmdAdmin("/admin")
    \/ CmdAdmin("/addvist")
    \/ AdminSelectCustomer("admin_customer", "1")
    \/ AdminSelectAction("admin_action", "add_visit", "1", 0)
    \/ AdminSelectAction("admin_delete_all", None, "1", 0)
    \/ \E d \in {"2026-10-31", "back"} : AdminSelectDate(d, "1")
    \/ \E k \in WizKinds \cup {"back"} : AdminSelectKind(k)
    \/ \E d \in WizDurations \cup {"back"} : AdminSelectDuration(d)
    \/ \E t \in WizTariffs \cup {"back"} : AdminSelectTariffType(t)
    \/ AdminConfirmVisit("back")
    \/ VisitsBelow(MaxVisits) /\ AdminConfirmVisit("yes")

SpecPrice == Init /\ [][NextPrice]_vars

\* ------------------------------------------------ the discount behaviours
\* Adding amount keeps every project sum within MaxSum.
SumBelow(cid, amount) ==
    cid \in DOMAIN customers => customers[cid].projects_sum + amount <= MaxSum

\* Every ledger operation on one customer record: visits come from the
\* wizard and leave by button or command, the project sum moves by button,
\* by the wizard's exact-sum step and by command.
NextDiscount ==
    \/ cmd_create("Acme", 1)
    \/ cmd_remove("1")
    \/ cmd_link("1", "11")
    \/ cmd_unlink("1", "11")
    \/ AdminSelectCustomer("admin_customer", "1")
    \/ \E a \in {"add_visit", "clear_visits"} :
           AdminSelectAction("admin_action", a, "1", 0)
    \/ AdminSelectDate("2026-10-31", "1")
    \/ AdminSelectKind("exact")
    \/ AdminSelectDuration("4")
    \/ AdminSelectTariffType("standard")
    \/ VisitsBelow(MaxLedgerVisits) /\ AdminConfirmVisit("yes")
    \/ AdminSelectAction("admin_delete_visit", None, "1", 0)
    \/ AdminSelectAction("admin_delete_all", None, "1", 0)
    \/ \E n \in {10000, 50000} :
           SumBelow("1", n) /\ AdminSelectAction("admin_add_amount", None, "1", n)
    \/ AdminSelectAction("admin_reset_sum", None, "1", 0)
    \/ AdminSelectAction("admin_set_exact", None, "1", 0)
    \/ \E n \in {59999, 60000} : AdminSetSumHandler(TRUE, n)
    \/ SumBelow("1", 25000) /\ cmd_addsum("1", 25000)
    \/ cmd_setsum("1", 60000)
    \/ cmd_clearvisits("1")

SpecDiscount == Init /\ [][NextDiscount]_vars

\* --------------------------------------------------- the link behaviours
\* What the operator types for a user id: the ids of the actors and a text
\* that is no number.
UidTexts == UidInputs \cup {"abc"}

\* Every way to link and unlink, on up to MaxId customers.
NextLinks ==
    \/ cmd_create("Acme", MaxId)
    \/ \E c \in CidInputs : cmd_remove(c)
    \/ \E c \in CidInputs : \E u \in UidTexts : cmd_link(c, u)
    \/ \E c \in everCids : \E u \in UidInputs : cmd_register(u, c)
    \/ \E c \in everCids : \E u \in UidInputs : admin_quick_link(c, u)
    \/ \E c \in everCids : \E u \in UidTexts : cmd_unlink(c, u)
    \/ \E c \in everCids : \E u \in UidInputs :
           AdminSelectAction("admin_unlink_specific", None, c, u)
    \/ \E c \in everCids : AdminSelectAction("admin_link_user", None, c, 0)
    \/ \E u \in UidTexts : AdminLinkUserHandler(u)
    \/ AdminSelectCustomer("admin_find_customer", None)
    \/ \E u \in UidInputs : AdminFindCustomerHandler(u)

SpecLinks == Init /\ [][NextLinks]_vars

\* ------------------------------------------------- the cancel behaviours
\* One customer and one actor; the operator reaches every state of the
\* conversation, the text-entry states included, and may press the cancel
\* button of any keyboard in any of them.
NextCancel ==
    \/ cmd_create("Acme", 1)
    \/ cmd_link("1", "11")
    \/ CmdAdmin("/admin")
    \/ AdminSelectCustomer("admin_customer", "1")
    \/ AdminSelectCustomer("admin_cancel", None)
    \/ AdminSelectCustomer("admin_create_customer", None)
    \/ AdminSelectCustomer("admin_find_customer", None)
    \/ \E text \in {"Acme", " "} : AdminCreateCustomerHandler(text, MaxId)
    \/ \E u \in UidInputs : AdminFindCustomerHandler(u)
    \/ AdminSelectAction("admin_action", "add_visit", "1", 0)
    \/ AdminSelectAction("admin_link_user", None, "1", 0)
    \/ AdminSelectAction("admin_set_exact", None, "1", 0)
    \/ AdminLinkUserHandler("12")
    \/ \E ok \in BOOLEAN : AdminSetSumHandler(ok, 60000)
    \/ \E d \in {"2026-10-31", "back"} : AdminSelectDate(d, "1")
    \/ \E k \in {"exact", "back"} : AdminSelectKind(k)
    \/ \E d \in {"4", "back"} : AdminSelectDuration(d)
    \/ \E t \in {"standard", "back"} : AdminSelectTariffType(t)
    \/ AdminConfirmVisit("back")
    \/ VisitsBelow(MaxVisits) /\ AdminConfirmVisit("yes")

SpecCancel == Init /\ [][NextCancel]_vars

\* ---------------------------------------------- the other actors' updates
\* The operator creates a customer, links actor 12 and commits visits;
\* actor 11, who is not the operator, sends commands and the callback
\* payloads of the operator's keyboards.
NextGuest ==
    \/ cmd_create("Acme", 1)
    \/ cmd_link("1", "12")
    \/ AdminSelectCustomer("admin_customer", "1")
    \/ AdminSelectAction("admin_action", "add_visit", "1", 0)
    \/ AdminSelectDate("2026-10-31", "1")
    \/ AdminSelectKind("exact")
    \/ AdminSelectDuration("4")
    \/ AdminSelectTariffType("standard")
    \/ VisitsBelow(MaxVisits) /\ AdminConfirmVisit("yes")
    \/ \E command \in {"/admin", "/remove"} : GuestCommand(11, command)
    \/ GuestOpenPanel(11)
    \/ \E data \in {"admin_customer", "admin_cancel"} : GuestSelectCustomer(11, data)
    \/ GuestQuickLink(11, "1", "11")
    \/ \E action \in {"remove", "clear_visits"} :
           GuestSelectAction(11, "admin_action", action, "1", 0)
    \/ \E data \in {"admin_delete_visit", "admin_delete_all", "admin_reset_sum"} :
           GuestSelectAction(11, data, None, "1", 0)
    \/ GuestSelectAction(11, "admin_unlink_specific", None, "1", "12")
    \/ SumBelow("1", 50000)
           /\ GuestSelectAction(11, "admin_add_amount", None, "1", 50000)
    \/ \E data \in {"admin_link_user", "admin_set_exact"} :
           GuestSelectAction(11, data, None, "1", 0)
    \/ GuestLinkUserHandler(11, "11")
    \/ GuestSetSumHandler(11, TRUE, 60000)

SpecGuest == Init /\ [][NextGuest]_vars

\* ---------------------------------------- the selected-customer behaviours
\* Customers of two names are created and removed by command while the
\* operator takes one pass of the add-visit wizard.
NextSelected ==
    \/ \E name \in {"Acme", "Beta"} : cmd_create(name, MaxId)
    \/ \E c \in DOMAIN customers : cmd_remove(c)
    \/ \E c \in DOMAIN customers : AdminSelectCustomer("admin_customer", c)
    \/ \E c \in DOMAIN customers : AdminSelectAction("admin_action", "add_visit", c, 0)
    \/ \E c \in everCids : AdminSelectDate("2026-10-31", c)
    \/ AdminSelectKind("exact")
    \/ AdminSelectDuration("4")
    \/ AdminSelectTariffType("standard")
    \/ VisitsBelow(MaxVisits) /\ AdminConfirmVisit("yes")

SpecSelected == Init /\ [][NextSelected]_vars

\* ------------------------------------------------ the leftover behaviours
\* The operator selects the customer once, while user_data holds no draft,
\* and from then on presses the buttons of the keyboards shown so far: the
\* draft is never cleared, and every later pass starts from the draft the
\* pass before it left.  Two categories and both tariff types are picked.
NextLeftover ==
    \/ cmd_create("Acme", 1)
    \/ ~HasDraft(user_data) /\ AdminSelectCustomer("admin_customer", "1")
    \/ AdminSelectCustomer("admin_cancel", None)
    \/ AdminSelectAction("admin_action", "add_visit", "1", 0)
    \/ \E d \in {"2026-10-31", "back"} : AdminSelectDate(d, "1")
    \/ \E k \in {"exact", "free", "back"} : AdminSelectKind(k)
    \/ \E d \in {"4", "back"} : AdminSelectDuration(d)
    \/ \E t \in {"standard", "discount", "back"} : AdminSelectTariffType(t)
    \/ AdminConfirmVisit("back")
    \/ VisitsBelow(MaxVisits) /\ AdminConfirmVisit("yes")

SpecLeftover == Init /\ [][NextLeftover]_vars

\* ------------------------------------------------ the removal behaviours
\* Up to MaxId customers with linked actors and visits; a customer is
\* removed by /remove or by the remove button of the action keyboard.
NextRemove ==
    \/ cmd_create("Acme", MaxId)
    \/ \E c \in DOMAIN customers : \E u \in UidInputs : cmd_link(c, u)
    \/ \E c \in DOMAIN customers : cmd_remove(c)
    \/ \E c \in DOMAIN customers : AdminSelectCustomer("admin_customer", c)
    \/ \E c \in DOMAIN customers : \E a \in {"add_visit", "remove"} :
           AdminSelectAction("admin_action", a, c, 0)
    \/ AdminSelectDate("2026-10-31", "1")
    \/ AdminSelectKind("exact")
    \/ AdminSelectDuration("4")
    \/ AdminSelectTariffType("standard")
    \/ VisitsBelow(MaxVisits) /\ AdminConfirmVisit("yes")

SpecRemove == Init /\ [][NextRemove]_vars

\* --------------------------------------------- the project-sum behaviours
\* What the operator types for an amount: the text after int() is any
\* integer, negative ones included.
AmountInputs == {-25000, 25000, 60000}

\* Adding amount keeps the project sum within -MaxSum .. MaxSum.
SumWithin(cid, amount) ==
    cid \in DOMAIN customers =>
        /\ customers[cid].projects_sum + amount <= MaxSum
        /\ customers[cid].projects_sum + amount >= -MaxSum

\* Add, set and reset of the project sum of one customer, by command, by
\* button and by the wizard's exact-sum step.
NextSums ==
    \/ cmd_create("Acme", 1)
    \/ cmd_remove("1")
    \/ AdminSelectCustomer("admin_customer", "1")
    \/ \E n \in AmountInputs : SumWithin("1", n) /\ cmd_addsum("1", n)
    \/ \E n \in AmountInputs : cmd_setsum("1", n)
    \/ SumWithin("1", 10000) /\ AdminSelectAction("admin_add_amount", None, "1", 10000)
    \/ AdminSelectAction("admin_reset_sum", None, "1", 0)
    \/ AdminSelectAction("admin_set_exact", None, "1", 0)
    \/ \E ok \in BOOLEAN : \E n \in AmountInputs : AdminSetSumHandler(ok, n)

SpecSums == Init /\ [][NextSums]_vars

\* ------------------------------------------------ the payload behaviours
\* A date text that strptime rejects.
BadDate == "31.10.2026"

\* Callback data of a date button as it may arrive: whole, with a date that
\* does not parse, or cut short.
DatePayloads(a) ==
    {<<"date">>}
    \cup {<<"date", s>> : s \in Issued(a)}
    \cup {DateData(s, d) : s \in Issued(a), d \in {"2026-10-31", "free", BadDate}}

\* Callback data of a duration button as it may arrive.
TimePayloads(a) ==
    {<<"time">>}
    \cup {<<"time", s, "2026-10-31", "exact">> : s \in Issued(a)}
    \cup {TimeData(s, d, "exact", "4") :
              s \in Issued(a), d \in {"2026-10-31", "free", BadDate}}

\* One customer, the actors linked to it, and quote callbacks with every
\* payload above.
NextPayload ==
    \/ Tick
    \/ cmd_create("Acme", 1)
    \/ \E u \in UidInputs : cmd_link("1", u)
    \/ \E a \in Actors : on_menu_calc(a)
    \/ \E a \in Actors : \E p \in DatePayloads(a) : on_date_choice(a, p)
    \/ \E a \in Actors : \E p \in TimePayloads(a) : on_time_choice(a, p)

SpecPayload == Init /\ [][NextPayload]_vars

\* ---------------------------------------------- the not-found behaviours
\* One customer "1" with linked actors, visits and a project sum; every
\* ledger operation is addressed to "1" and to ids no record has, visits
\* are removed at indexes inside and outside the list, and actors are
\* unlinked whether linked or not.
NextNotFound ==
    \/ cmd_create("Acme", 1)
    \/ \E c \in CidInputs : \E u \in UidInputs : cmd_link(c, u)
    \/ \E c \in CidInputs : \E u \in UidInputs : admin_quick_link(c, u)
    \/ \E c \in CidInputs : \E u \in UidInputs : cmd_unlink(c, u)
    \/ \E c \in CidInputs : SumBelow(c, 60000) /\ cmd_addsum(c, 60000)
    \/ \E c \in CidInputs : cmd_setsum(c, 60000)
    \/ \E c \in CidInputs : cmd_remove(c)
    \/ \E c \in CidInputs : cmd_clearvisits(c)
    \/ AdminSelectCustomer("admin_customer", "1")
    \/ \E c \in CidInputs : \E a \in {"add_visit", "clear_visits", "remove"} :
           AdminSelectAction("admin_action", a, c, 0)
    \/ AdminSelectDate("2026-10-31", "1")
    \/ AdminSelectKind("exact")
    \/ AdminSelectDuration("4")
    \/ AdminSelectTariffType("standard")
    \/ VisitsBelow(MaxVisits) /\ AdminConfirmVisit("yes")
    \/ \E c \in CidInputs : \E i \in 0..MaxVisits :
           AdminSelectAction("admin_delete_visit", None, c, i)
    \/ \E c \in CidInputs : AdminSelectAction("admin_delete_all", None, c, 0)
    \/ \E c \in CidInputs : \E u \in UidInputs :
           AdminSelectAction("admin_unlink_specific", None, c, u)
    \/ \E c \in CidInputs :
           /\ SumBelow(c, 60000)
           /\ AdminSelectAction("admin_add_amount", None, c, 60000)
    \/ \E c \in CidInputs : AdminSelectAction("admin_reset_sum", None, c, 0)

SpecNotFound == Init /\ [][NextNotFound]_vars

\* ------------------------------------ the category and price behaviours
Days == 0..MaxDay

Hours == 0..23

\* A date, the clock and a holiday calendar are drawn, and classify_kind is
\* applied to them.
ClassifyInput(selected_date, today, hour, hol) ==
    [op |-> "classify_input", uid |-> 0, sid |-> EmptyStr, reply |-> "none",
     selected_date |-> selected_date, today |-> today, hour |-> hour,
     holidays |-> hol]

DrawClassifyInput ==
    /\ ev.op = "init"
    /\ \E d \in Days : \E t \in Days : \E h \in Hours : \E hol \in SUBSET Days :
           ev' = ClassifyInput(d, t, h, hol)
    /\ UNCHANGED <<calcVars, now, writable, ledgerVars, wizVars>>

ClassifyKind ==
    /\ ev.op = "classify_input"
    /\ ev' = [ev EXCEPT !.op = "classify_kind",
                        !.reply = classify_kind(ev.selected_date, ev.today,
                                                ev.hour, ev.holidays)]
    /\ UNCHANGED <<calcVars, now, writable, ledgerVars, wizVars>>

\* A category, a duration and a discount flag are drawn, and calc_price is
\* applied to them.
PriceInput(kind, duration, discount) ==
    [op |-> "price_input", uid |-> 0, sid |-> EmptyStr, reply |-> "none",
     kind |-> kind, duration |-> duration, discount |-> discount]

DrawPriceInput ==
    /\ ev.op = "init"
    /\ \E k \in Kinds : \E d \in Durations : \E discount \in BOOLEAN :
           ev' = PriceInput(k, d, discount)
    /\ UNCHANGED <<calcVars, now, writable, ledgerVars, wizVars>>

CalcPrice ==
    /\ ev.op = "price_input"
    /\ ev' = [ev EXCEPT !.op = "calc_price",
                        !.reply = calc_price(ev.kind, ev.duration, ev.discount)]
    /\ UNCHANGED <<calcVars, now, writable, ledgerVars, wizVars>>

NextTariff ==
    \/ DrawClassifyInput
    \/ ClassifyKind
    \/ DrawPriceInput
    \/ CalcPrice

SpecTariff == Init /\ [][NextTariff]_vars

\* ------------------------------------------------- the flush behaviours
\* data.json becomes unwritable (disk full, permissions) or writable again.
SetWritable(ok) ==
    /\ writable # ok
    /\ writable' = ok
    /\ ev' = Event("set_writable", 0, EmptyStr, "none")
    /\ UNCHANGED <<calcVars, now, customers, disk, everCids, wizVars>>

\* Every ledger-changing command and button on one customer, while the file
\* comes and goes.
NextFlush ==
    \/ \E ok \in BOOLEAN : SetWritable(ok)
    \/ cmd_create("Acme", 1)
    \/ cmd_link("1", "11")
    \/ SumBelow("1", 60000) /\ cmd_addsum("1", 60000)
    \/ cmd_remove("1")
    \/ AdminSelectCustomer("admin_customer", "1")
    \/ AdminSelectAction("admin_action", "add_visit", "1", 0)
    \/ AdminSelectDate("2026-10-31", "1")
    \/ AdminSelectKind("exact")
    \/ AdminSelectDuration("4")
    \/ AdminSelectTariffType("standard")
    \/ VisitsBelow(MaxVisits) /\ AdminConfirmVisit("yes")
    \/ AdminSelectAction("admin_delete_visit", None, "1", 0)
    \/ AdminSelectAction("admin_delete_all", None, "1", 0)
    \/ AdminSelectAction("admin_unlink_specific", None, "1", "11")
    \/ AdminSelectAction("admin_reset_sum", None, "1", 0)

SpecFlush == Init /\ [][NextFlush]_vars

\* ------------------------------------------------ the restart behaviours
\* A record keyed by a name, as a data.json written by hand holds it.
LegacyId == "acme"

\* data.json is put in place before the first start of the process: the
\* record keyed by a name, and customer "1" with a linked user.
LegacyFile ==
    /\ ev.op = "init"
    /\ disk' = (LegacyId :> NewCustomer("Acme"))
                @@ ("1" :> [NewCustomer("Acme") EXCEPT !.ids = <<"12">>])
    /\ ev' = Event("legacy_file", 0, EmptyStr, "none")
    /\ UNCHANGED <<calcVars, now, writable, customers, everCids, wizVars>>

\* The process starts again: memory is lost, load_data() reads data.json
\* and runs cleanup_data(), which saves when it removed a record; when the
\* file does not parse, the ledger starts empty.
load_data ==
    /\ \E parsed \in BOOLEAN :
           IF parsed
           THEN /\ customers' = cleanup_data(disk)
                /\ disk' = IF DOMAIN customers' # DOMAIN disk
                           THEN save_data(customers', disk, writable)
                           ELSE disk
                /\ ev' = Event("load_data", 0, EmptyStr, "loaded")
           ELSE /\ customers' = NoCustomers
                /\ disk' = disk
                /\ ev' = Event("load_data", 0, EmptyStr, "error")
    /\ calc_store' = {}
    /\ jobs' = [a \in Actors |-> 0]
    /\ running' = [a \in Actors |-> 0]
    /\ active' = [a \in Actors |-> FALSE]
    /\ conv' = END
    /\ user_data' = EmptyDict
    /\ guest' = [a \in Actors |-> [conv |-> END, user_data |-> EmptyDict]]
    /\ repriced' = FALSE
    /\ picked' = {}
    /\ UNCHANGED <<now, writable, lastIssued, superseded, everCids>>

\* Customers are created, linked, given a sum and a visit, and the process
\* restarts at any moment.  A customer is created while the ledger is empty
\* or holds a numeric id.
NextRestart ==
    \/ LegacyFile
    \/ load_data
    \/ /\ \/ DOMAIN customers = {}
          \/ \E d \in DOMAIN customers : IsDigit(d)
       /\ cmd_create("Acme", MaxId)
    \/ \E c \in DOMAIN customers : cmd_link(c, "11")
    \/ \E c \in DOMAIN customers : cmd_setsum(c, 60000)
    \/ \E c \in CidInputs \cap DOMAIN customers :
           AdminSelectCustomer("admin_customer", c)
    \/ \E c \in CidInputs \cap DOMAIN customers :
           AdminSelectAction("admin_action", "add_visit", c, 0)
    \/ AdminSelectDate("2026-10-31", "1")
    \/ AdminSelectKind("exact")
    \/ AdminSelectDuration("4")
    \/ AdminSelectTariffType("standard")
    \/ VisitsBelow(MaxVisits) /\ AdminConfirmVisit("yes")

SpecRestart == Init /\ [][NextRestart]_vars

\* ------------------------------------------------- quote-session claims
AllSids == {Str(t) : t \in 1..MaxClock} \cup {EmptyStr}

\* C1: whatever the interleaving of start, touch, reset and expiry, the
\* session store holds at most one session for each actor.
C1_OneSessionPerActor ==
    \A a \in Actors : Cardinality({e \in calc_store : e.key = a}) <= 1

\* A restarted session has just been touched by a valid date pick.
C1_Witness ==
    \E a \in Actors :
        /\ DictHas(calc_store, a)
        /\ superseded[a] # {}
        /\ ev = Event("date", a, lastIssued[a], "duration_menu")

\* C2: validate(actor, token) is true exactly when the actor's session is
\* active and the token is the one the most recent start returned; it is
\* false for the empty token and for the token of a superseded session.
C2_ValidateIffLiveToken ==
    \A a \in Actors : \A t \in AllSids :
        /\ is_session_valid(calc_store, a, t) <=> (active[a] /\ t = lastIssued[a])
        /\ (t = EmptyStr \/ t \in superseded[a]) => ~is_session_valid(calc_store, a, t)

\* C3: a date or duration callback whose token is not the live one, or is
\* the token of a superseded session, is answered "expired": it shows no
\* duration keyboard and no price.
C3_StaleCallbackRejected ==
    [][\A a \in Actors :
        (/\ ev'.op \in {"date", "time"}
         /\ ev'.uid = a
         /\ \/ ~(active[a] /\ ev'.sid = lastIssued[a])
            \/ ev'.sid \in superseded[a])
        => ev'.reply = "expired"]_vars

\* C4: start returns a token that differs from every token issued to the
\* same actor before.
C4_FreshToken ==
    [][\A a \in Actors :
        (ev'.op = "menu:calc" /\ ev'.uid = a /\ ev'.reply = "dates_menu")
        => ev'.sid \notin Issued(a)]_vars

\* C10: each actor has at most one scheduled expiry timer.
C10_OneTimerPerActor == \A a \in Actors : jobs[a] <= 1

\* A touch has just replaced the timer of a running session.
C10_Witness ==
    \E a \in Actors :
        /\ jobs[a] = 1
        /\ ev = Event("date", a, lastIssued[a], "duration_menu")
        /\ DictGet(calc_store, a).ts > IntOf(lastIssued[a])

\* ------------------------------------------------------- wizard claims
\* C5: a confirm press in state CONFIRM_VISIT appends exactly one visit to
\* the end of one record's visits, leaves that record's earlier visits and
\* every other record unchanged, and ends the wizard.
C5_ConfirmAppendsOnce ==
    [][(conv = "CONFIRM_VISIT" /\ ev'.op = "admin_confirm:yes") =>
        /\ conv' = END
        /\ DOMAIN customers' = DOMAIN customers
        /\ \E c \in DOMAIN customers :
            /\ Len(customers'[c].visits) = Len(customers[c].visits) + 1
            /\ SubSeq(customers'[c].visits, 1, Len(customers[c].visits))
                   = customers[c].visits
            /\ \A d \in DOMAIN customers \ {c} : customers'[d] = customers[d]]_vars

\* C6: the date, category, duration and tariff picks and every back step
\* leave the ledger as it is, and a record's visits grow only by the
\* confirm press taken in state CONFIRM_VISIT.
C6_OnlyConfirmCommits ==
    [][/\ ev'.op \in {"admin_date", "admin_date:back", "admin_kind",
                      "admin_kind:back", "admin_duration", "admin_duration:back",
                      "admin_tariff", "admin_tariff:back", "admin_confirm:back"}
          => customers' = customers
       /\ (\E c \in DOMAIN customers \cap DOMAIN customers' :
              Len(customers'[c].visits) > Len(customers[c].visits))
          => (conv = "CONFIRM_VISIT" /\ ev'.op = "admin_confirm:yes")]_vars

\* A second pass through the pipeline has just committed a second visit.
C6_Witness ==
    /\ ev = AdminEvent("admin_confirm:yes", "visit_added")
    /\ conv = END
    /\ \E c \in DOMAIN customers : Len(customers[c].visits) = 2

\* C7: every committed visit carries the price of its own category,
\* duration and tariff type, whatever picks and back steps came before.
C7_CommittedPriceMatches ==
    \A c \in DOMAIN customers : \A i \in 1..Len(customers[c].visits) :
        LET v == customers[c].visits[i]
        IN v.price = calc_price(v.kind, v.duration, v.tariff_type = "discount")

\* A visit has just been committed whose draft was priced, taken back from
\* the confirm screen and priced again differently.
C7_Witness ==
    /\ ev = AdminEvent("admin_confirm:yes", "visit_added")
    /\ repriced
    /\ "1" \in DOMAIN customers
    /\ \E i \in 1..Len(customers["1"].visits) :
           /\ customers["1"].visits[i].tariff_type = "discount"
           /\ customers["1"].visits[i].duration = "night_8"
           /\ customers["1"].visits[i].price = user_data["admin_visit"]["price"]

\* -------------------------------------------------------- ledger claims
\* C8: every record's discount flag equals (4 or more visits, or a project
\* sum of 60000 or more).
C8_DiscountMatchesRule ==
    \A c \in DOMAIN customers :
        customers[c].discount
            = (Len(customers[c].visits) >= 4 \/ customers[c].projects_sum >= 60000)

\* A record that had 4 visits and a small project sum has just lost one
\* visit, and with it the discount.
C8_Witness ==
    /\ ev = AdminEvent("admin_delete_visit", "visit_deleted")
    /\ "1" \in DOMAIN customers
    /\ Len(customers["1"].visits) = 3
    /\ customers["1"].projects_sum = 59999
    /\ ~customers["1"].discount

\* C9: no user id is listed by two records, and none twice by one record.
C9_ActorInOneRecord ==
    \A u \in UidTexts :
        Cardinality({p \in (DOMAIN customers) \X (1..Cardinality(UidTexts)) :
                        /\ p[2] <= Len(customers[p[1]].ids)
                        /\ customers[p[1]].ids[p[2]] = u}) <= 1

\* The wizard's link step has just moved both actors to the second record.
C9_Witness ==
    /\ ev = AdminEvent("text:link", "linked")
    /\ DOMAIN customers = {"1", "2"}
    /\ customers["1"].ids = <<>>
    /\ customers["2"].ids = <<"12", "11">>

\* ------------------------------------------- quote-session reset claims
\* C11: when a date or duration callback is rejected as stale, the actor's
\* session is reset: after the rejection the actor has no session in the
\* store and no scheduled expiry timer.
C11_StaleRejectionResets ==
    [][\A a \in Actors :
        (ev'.op \in {"date", "time"} /\ ev'.uid = a /\ ev'.reply = "expired")
        => (~DictHas(calc_store', a) /\ jobs'[a] = 0)]_vars

\* C12: a price shown for a valid duration pick of a linked actor, the
\* menu items main menu, status and visits, and /start by a linked actor
\* leave the actor without session and timer; a new quote leaves only the
\* session it has just started, with one timer; and a press of a date or
\* duration button right after one of the former, or of a button of a
\* session that a new quote has replaced, is answered "expired".
C12_ResetEndsSession ==
    [][\A a \in Actors :
        /\ (/\ ev'.uid = a
            /\ \/ ev'.op = "time" /\ ev'.reply = "price"
               \/ ev'.op \in {"start", "menu:start", "menu:status", "menu:visits"}
                  /\ ev'.reply = "main_menu")
           => (~DictHas(calc_store', a) /\ jobs'[a] = 0)
        /\ (ev'.uid = a /\ ev'.op = "menu:calc" /\ ev'.reply = "dates_menu")
           => /\ get_active_calc_session(calc_store', a) = ev'.sid
              /\ jobs'[a] = 1
        /\ (/\ ev'.uid = a
            /\ ev'.op \in {"date", "time"}
            /\ \/ ev'.sid \in superseded[a]
               \/ /\ ev.uid = a
                  /\ \/ ev.op = "time" /\ ev.reply = "price"
                     \/ ev.op \in {"start", "menu:start", "menu:status",
                                   "menu:visits"} /\ ev.reply = "main_menu")
           => ev'.reply = "expired"]_vars

\* ---------------------------------------- the quote session under fairness
\* The job queue dispatches a scheduled calc_timeout job when it is due, and
\* the event loop runs a dispatched callback.
SpecCalcFair ==
    /\ SpecCalc
    /\ \A a \in Actors : WF_vars(TimerFire(a)) /\ WF_vars(_calc_timeout_job(a))

C14_PipelineTransitions ==
    [][/\ (conv = "SELECT_ACTION" /\ ev'.op = "add_visit") => conv' = "SELECT_DATE"
       /\ (conv = "SELECT_DATE" /\ ev'.op = "admin_date") => conv' = "SELECT_KIND"
       /\ (conv = "SELECT_DATE" /\ ev'.op = "admin_date:back")
              => conv' = "SELECT_ACTION"
       /\ (conv = "SELECT_KIND" /\ ev'.op = "admin_kind") => conv' = "SELECT_DURATION"
       /\ (conv = "SELECT_KIND" /\ ev'.op = "admin_kind:back") => conv' = "SELECT_DATE"
       /\ (conv = "SELECT_DURATION" /\ ev'.op = "admin_duration")
              => conv' = "SELECT_TARIFF_TYPE"
       /\ (conv = "SELECT_DURATION" /\ ev'.op = "admin_duration:back")
              => conv' = "SELECT_KIND"
       /\ (conv = "SELECT_TARIFF_TYPE" /\ ev'.op = "admin_tariff")
              => conv' = "CONFIRM_VISIT"
       /\ (conv = "SELECT_TARIFF_TYPE" /\ ev'.op = "admin_tariff:back")
              => conv' = "SELECT_DURATION"
       /\ (conv = "CONFIRM_VISIT" /\ ev'.op = "admin_confirm:back")
              => conv' = "SELECT_TARIFF_TYPE"
       /\ (conv = "CONFIRM_VISIT" /\ ev'.op = "admin_confirm:yes") => conv' = END
       /\ (conv # "CONFIRM_VISIT" /\ conv' = "CONFIRM_VISIT")
              => (conv = "SELECT_TARIFF_TYPE" /\ ev'.op = "admin_tariff")]_vars

C16_CancelDiscardsDraft ==
    [][ev'.op = "admin_cancel" =>
        \A k \in DraftKeys : ~DraftHas(user_data', k)]_vars

\* C17: each way to open the panel (/admin, /addvisit, /addvist, the
\* admin_panel button) drops the draft and leaves the wizard in
\* SELECT_CUSTOMER, whatever its state was; and a confirm press made while
\* the draft is dropped changes no record.
C17_EntryRestartsWizard ==
    [][/\ ev'.op \in {"/admin", "/addvisit", "/addvist", "admin_panel"}
          => (~HasDraft(user_data') /\ conv' = "SELECT_CUSTOMER")
       /\ (ev'.op \in {"admin_confirm:yes", "admin_confirm"} /\ ~HasDraft(user_data))
          => customers' = customers]_vars

\* ------------------------------------------------- visit record claims
\* C18: every visit of every record has exactly the fields date, kind,
\* duration, tariff_type and price, with a category and a duration of the
\* allowed sets and a positive price; and a confirm press that finds a
\* draft field or the customer missing leaves the ledger, in memory and on
\* disk, as it is.
C18_VisitsComplete ==
    /\ [](\A c \in DOMAIN customers : \A i \in 1..Len(customers[c].visits) :
            LET v == customers[c].visits[i]
            IN /\ DOMAIN v = {"date", "kind", "duration", "tariff_type", "price"}
               /\ v.date # None
               /\ v.kind \in Kinds
               /\ v.duration \in Durations
               /\ v.tariff_type \in {"discount", "standard"}
               /\ v.price > 0)
    /\ [][(/\ conv = "CONFIRM_VISIT"
           /\ ev'.op = "admin_confirm:yes"
           /\ \/ ~(\A k \in DraftKeys : DraftHas(user_data, k))
              \/ user_data["admin_visit"]["cid"] \notin DOMAIN customers)
          => (customers' = customers /\ disk' = disk)]_vars

\* A confirm press has just failed on a draft that holds only a customer
\* id, the id of a record with a committed visit.
C18_Witness ==
    /\ ev = AdminEvent("admin_confirm:yes", "error")
    /\ conv = "CONFIRM_VISIT"
    /\ HasDraft(user_data)
    /\ DOMAIN user_data["admin_visit"] = {"cid"}
    /\ user_data["admin_visit"]["cid"] \in DOMAIN customers
    /\ \E c \in DOMAIN customers : Len(customers[c].visits) >= 1

\* ------------------------------------------------------ operator claims
\* C19: no update of an actor other than the operator, command or callback,
\* changes a customer record or the set of records.
C19_OnlyOperatorChangesLedger ==
    [][ev'.uid \in Actors => (customers' = customers /\ disk' = disk)]_vars

\* C20: a removal, by /remove or by the wizard's remove button, takes one
\* record with its visits out of the ledger, in memory and on disk, leaves
\* every other record as it was, and find_customer_by_userid finds nothing
\* for an actor who was linked to the removed record only.
C20_RemoveDeletesRecord ==
    [][(ev'.op \in {"/remove", "remove"} /\ ev'.reply = "removed") =>
        \E c \in DOMAIN customers :
            /\ DOMAIN customers' = DOMAIN customers \ {c}
            /\ \A d \in DOMAIN customers' : customers'[d] = customers[d]
            /\ disk' = customers'
            /\ \A a \in Actors :
                  (/\ InSeq(Str(a), customers[c].ids)
                   /\ \A d \in DOMAIN customers \ {c} :
                          ~InSeq(Str(a), customers[d].ids))
                  => find_customer_by_userid(customers', a) = None]_vars

\* The remove button has just taken out record 1, which the draft still
\* names; record 2 is left with its visit and its linked actor, and actor
\* 11 is linked to no record.
C20_Witness ==
    /\ ev = AdminEvent("remove", "removed")
    /\ DOMAIN customers = {"2"}
    /\ DraftHas(user_data, "cid")
    /\ user_data["admin_visit"]["cid"] = "1"
    /\ customers["2"].ids = <<"12">>
    /\ Len(customers["2"].visits) = 1
    /\ find_customer_by_userid(customers, 11) = None

\* ------------------------------------------------- customer id claims
\* C21: the id of a newly created customer is greater than the id of every
\* customer created before it, removed ones included, so no id is given
\* twice.
C21_IdsNeverReused ==
    [][\A c \in DOMAIN customers' \ DOMAIN customers :
          \A d \in everCids : IntOf(c) > IntOf(d)]_vars

\* ------------------------------------------------- project-sum claims
\* C22: the project sum of every customer record is non-negative in every
\* reachable state, whatever integers the operator supplies to add, set and
\* reset.
C22_ProjectSumNonNegative ==
    \A c \in DOMAIN customers : customers[c].projects_sum >= 0

\* --------------------------------------------------------- link claims
IdSet(ids) == {ids[i] : i \in DOMAIN ids}

\* C23: linking user u to customer c leaves u listed by c and by no other
\* record; when u is already linked to c no record's set of linked users
\* changes; and linking twice gives the same ledger as linking once.
C23_LinkIdempotent ==
    \A c \in DOMAIN customers : \A u \in UidTexts :
        LET once == LinkUser(customers, c, u)
        IN /\ InSeq(u, once[c].ids)
           /\ \A d \in DOMAIN once \ {c} : ~InSeq(u, once[d].ids)
           /\ InSeq(u, customers[c].ids) =>
                  \A d \in DOMAIN customers :
                      IdSet(once[d].ids) = IdSet(customers[d].ids)
           /\ LinkUser(once, c, u) = once

\* A link command has just linked a user to a record that now lists two
\* users, with another record in the ledger.
C23_Witness ==
    /\ ev.op = "/link"
    /\ ev.reply = "linked"
    /\ \E c \in DOMAIN customers :
           /\ Len(customers[c].ids) = 2
           /\ DOMAIN customers \ {c} # {}

C25_TouchFrame ==
    \A a \in Actors :
        LET t == touch_calc_session(calc_store, jobs, a, now)
        IN /\ ~DictHas(calc_store, a) =>
                  t = [store |-> calc_store, jobs |-> jobs]
           /\ DictHas(calc_store, a) =>
                  /\ DictHas(t.store, a)
                  /\ DictGet(t.store, a).session = DictGet(calc_store, a).session
                  /\ is_session_valid(t.store, a, DictGet(calc_store, a).session)
                  /\ t.jobs[a] = 1
           /\ \A b \in Actors \ {a} :
                  /\ t.jobs[b] = jobs[b]
                  /\ DictHas(t.store, b) = DictHas(calc_store, b)
                  /\ DictHas(calc_store, b) =>
                         DictGet(t.store, b) = DictGet(calc_store, b)

\* A date choice has touched the actor's session at a later time than its
\* start, and the other actor has no session.
C25_Witness ==
    /\ ev.op = "date"
    /\ ev.reply = "duration_menu"
    /\ DictHas(calc_store, ev.uid)
    /\ DictGet(calc_store, ev.uid).session = ev.sid
    /\ DictGet(calc_store, ev.uid).ts # IntOf(ev.sid)
    /\ jobs[ev.uid] = 1
    /\ \E b \in Actors \ {ev.uid} : ~DictHas(calc_store, b)

\* ------------------------------------------------- delivery claims
\* C26: a run of the expiry callback for an actor with a session removes
\* the session whether the notice is sent or the send fails, and a failed
\* send ends the callback without an error; for an actor without a session
\* the callback changes neither sessions nor timers and sends nothing.
C26_ExpiryIgnoresDelivery ==
    [][\A a \in Actors :
        (ev'.op = "timeout_job" /\ ev'.uid = a) =>
            IF DictHas(calc_store, a)
            THEN /\ calc_store' = DictPop(calc_store, a)
                 /\ ev'.reply \in {"timeout_notice", "notice_failed"}
            ELSE /\ calc_store' = calc_store
                 /\ jobs' = jobs
                 /\ ev'.reply = "none"]_vars

\* The callback has removed a session and its notice could not be sent,
\* while the other actor keeps a session.
C26_Witness ==
    /\ ev.op = "timeout_job"
    /\ ev.reply = "notice_failed"
    /\ ~DictHas(calc_store, ev.uid)
    /\ lastIssued[ev.uid] # None
    /\ \E b \in Actors \ {ev.uid} : DictHas(calc_store, b)

\* C27: when the call that shows a quote handler's answer fails, the
\* session is left as it is when the call succeeds: a new quote leaves the
\* session it started, a date choice leaves the touched session, and a
\* duration choice that has computed a price leaves the actor without a
\* session and without a timer.
C27_DeliveryFailureKeepsLogic ==
    [][\A a \in Actors :
        (ev'.uid = a /\ ev'.reply \in {"send_failed", "price"}) =>
            /\ ev'.op = "menu:calc" =>
                   /\ get_active_calc_session(calc_store', a) = ev'.sid
                   /\ jobs'[a] = 1
            /\ ev'.op = "date" =>
                   /\ calc_store' = touch_calc_session(calc_store, jobs, a, now).store
                   /\ jobs'[a] = 1
            /\ ev'.op = "time" =>
                   /\ ~DictHas(calc_store', a)
                   /\ jobs'[a] = 0]_vars

\* ------------------------------------------------- payload claims
\* C28: a date or duration callback never raises, whatever its payload: one
\* that is cut short or carries a date that does not parse is answered with
\* a message, not with an exception.
C28_MalformedPayloadRejected ==
    ev.op \in {"date", "time"} => ev.reply # "error"

\* ------------------------------------------------- not-found claims
\* C29: an operation that finds no such customer, no visit at the index or
\* no such linked user changes no record and saves nothing: link, unlink,
\* add and set of the sum, remove and clear visits for an id no record has,
\* removal of a visit outside the list, and unlink of a user the record does
\* not list; a link to an unknown customer leaves the user linked where it
\* was.
C29_NotFoundChangesNothing ==
    [][(\/ ev'.reply \in {"not_found", "not_linked", "visit_not_found"}
        \/ /\ ev'.reply = "error"
           /\ ev'.op \in LedgerPayloads \cup {"add_visit", "clear_visits", "remove"})
       => (customers' = customers /\ disk' = disk)]_vars

\* A link to an id no record has was refused while the one record lists a
\* user and holds a visit.
C29_Witness ==
    /\ ev = AdminEvent("/link", "not_found")
    /\ DOMAIN customers = {"1"}
    /\ customers["1"].ids # <<>>
    /\ customers["1"].visits # <<>>

\* ------------------------------------------------- validation claims
\* C30: a name that is empty after strip, sent in CREATE_CUSTOMER, creates
\* no record, saves nothing and keeps the wizard in CREATE_CUSTOMER; a text
\* that is no number, sent in SET_SUM, changes no record (so no project sum
\* and no discount flag), saves nothing and keeps the wizard in SET_SUM.
C30_ValidationKeepsStep ==
    [][/\ ev'.reply = "empty_name"
          => /\ ev'.op = "text:name"
             /\ conv = "CREATE_CUSTOMER"
             /\ conv' = "CREATE_CUSTOMER"
             /\ customers' = customers
             /\ disk' = disk
       /\ ev'.reply = "not_a_number"
          => /\ ev'.op = "text:sum"
             /\ conv = "SET_SUM"
             /\ conv' = "SET_SUM"
             /\ customers' = customers
             /\ disk' = disk]_vars

\* A text that is no number was refused in SET_SUM for a record whose sum
\* had been set to 60000 before.
C30_Witness ==
    /\ ev = AdminEvent("text:sum", "not_a_number")
    /\ conv = "SET_SUM"
    /\ "1" \in DOMAIN customers
    /\ customers["1"].projects_sum = 60000
    /\ customers["1"].discount

\* ------------------------------------------------- tariff claims
\* C31: classify_kind answers every date, clock and calendar with one of
\* holiday, urgent_today, urgent_tomorrow and exact, in this precedence: a
\* holiday is holiday, also when it is today or tomorrow; otherwise today
\* is urgent_today; otherwise tomorrow is urgent_tomorrow from 17:00 on and
\* exact before; every other date, past ones included, is exact.
C31_ClassifyPrecedence ==
    ev.op = "classify_kind" =>
        LET d == ev.selected_date
            hol == ev.holidays
        IN /\ ev.reply \in {"holiday", "urgent_today", "urgent_tomorrow", "exact"}
           /\ d \in hol => ev.reply = "holiday"
           /\ (d \notin hol /\ d = ev.today) => ev.reply = "urgent_today"
           /\ (d \notin hol /\ d = ev.today + 1 /\ ev.hour >= 17)
                  => ev.reply = "urgent_tomorrow"
           /\ (d \notin hol /\ d = ev.today + 1 /\ ev.hour < 17)
                  => ev.reply = "exact"
           /\ (d \notin hol /\ d # ev.today /\ d # ev.today + 1)
                  => ev.reply = "exact"

\* A holiday that is today, asked at 18:00, was classified.
C31_Witness ==
    /\ ev.op = "classify_kind"
    /\ ev.selected_date = ev.today
    /\ ev.selected_date \in ev.holidays
    /\ ev.hour = 18
    /\ ev.reply = "holiday"

\* C32: for each of the 5 categories, 4 durations and 2 values of the
\* discount flag calc_price returns a positive integer, the entry of
\* TARIFFS_DISCOUNT when the flag is set and of TARIFFS_STANDARD when not.
C32_PriceFromTable ==
    ev.op = "calc_price" =>
        /\ ev.reply \in Nat
        /\ ev.reply > 0
        /\ ev.discount => ev.reply = TARIFFS_DISCOUNT[ev.kind][ev.duration]
        /\ ~ev.discount => ev.reply = TARIFFS_STANDARD[ev.kind][ev.duration]

\* The price of a 4-hour free-schedule visit with the discount was read.
C32_Witness ==
    /\ ev.op = "calc_price"
    /\ ev.discount
    /\ ev.kind = "free"
    /\ ev.duration = "4"
    /\ ev.reply = 20000

\* C33: for every category and duration the price with the discount is
\* strictly below the price without it.
C33_DiscountLowersPrice ==
    ev.op = "calc_price" =>
        calc_price(ev.kind, ev.duration, TRUE) < calc_price(ev.kind, ev.duration, FALSE)

\* The price of an 8-hour holiday night with the discount was read: 35000
\* against 45000.
C33_Witness ==
    /\ ev.op = "calc_price"
    /\ ev.discount
    /\ ev.kind = "holiday"
    /\ ev.duration = "night_8"
    /\ ev.reply = 35000
    /\ calc_price("holiday", "night_8", FALSE) = 45000

\* ------------------------------------------------- stored-visit claims
\* C34: a committed visit keeps every field: in each step the visits of a
\* record that stays in the ledger are the same list, the same list with
\* one visit appended, the same list with one visit removed, or empty; no
\* change of the project sum, recomputation of the discount, link, unlink
\* or wizard step rewrites a stored visit.
C34_CommittedVisitFrozen ==
    [][\A c \in DOMAIN customers \cap DOMAIN customers' :
          LET v == customers[c].visits
              w == customers'[c].visits
          IN \/ w = v
             \/ Len(w) = Len(v) + 1 /\ SubSeq(w, 1, Len(v)) = v
             \/ \E i \in 0..(Len(v) - 1) : w = PopVisit(v, i)
             \/ w = <<>>]_vars

\* The project sum was set to 60000 and the discount flag turned on while
\* the record keeps a visit committed at the standard price.
C34_Witness ==
    /\ ev.reply \in {"sum_set", "done"}
    /\ "1" \in DOMAIN customers
    /\ customers["1"].projects_sum = 60000
    /\ customers["1"].discount
    /\ Len(customers["1"].visits) = 1
    /\ customers["1"].visits[1].price = 25000

\* ------------------------------------------------- persistence claims
\* C35: a step that changes the ledger ends with data.json equal to the
\* ledger when the file can be written; when it cannot, the file stays as
\* it was, the ledger keeps the change, and the operator is answered as on
\* success, with no error and no not-found message.
C35_SnapshotFollowsLedger ==
    [][customers' # customers =>
          /\ writable => disk' = customers'
          /\ ~writable => disk' = disk
          /\ ev'.reply \notin {"error", "not_found", "not_linked",
                               "visit_not_found", "none"}]_vars

\* A visit was committed while data.json could not be written: the ledger
\* holds it and the file does not.
C35_Witness ==
    /\ ~writable
    /\ ev.op = "admin_confirm:yes"
    /\ "1" \in DOMAIN customers
    /\ Len(customers["1"].visits) = 1
    /\ "1" \in DOMAIN disk
    /\ disk["1"].visits = <<>>

\* C36: a load of data.json keeps exactly the records that list a user or
\* whose id is not a number, each as the file holds it, visits and project
\* sum included; a record with a numeric id and no linked user is dropped
\* whatever visits and sum it has.
C36_CleanupRemovesUnlinked ==
    [][(ev'.op = "load_data" /\ ev'.reply = "loaded") =>
          /\ DOMAIN customers' =
                 {c \in DOMAIN disk : ~(IsDigit(c) /\ disk[c].ids = <<>>)}
          /\ \A c \in DOMAIN customers' : customers'[c] = disk[c]]_vars

\* A restart kept the record keyed by a name and a linked customer, and
\* dropped customer "2", created earlier and never linked, from the ledger
\* and from the file.
C36_Witness ==
    /\ ev = Event("load_data", 0, EmptyStr, "loaded")
    /\ LegacyId \in DOMAIN customers
    /\ customers[LegacyId].ids = <<>>
    /\ "1" \in DOMAIN customers
    /\ customers["1"].ids # <<>>
    /\ "2" \in everCids \ DOMAIN customers
    /\ "2" \notin DOMAIN disk

\* C37: an expiry timer that a later start or touch cancelled or replaced
\* never removes the actor's session, also when its callback was already
\* dispatched at the moment of the start or touch.  A start or touch made
\* after the dispatch leaves its own timer in the queue, and that timer stays
\* there for as long as the session lives and the dispatched callback has not
\* run; so a callback that removes a session finds no timer queued for the
\* actor.
C37_StaleTimerKeepsSession ==
    [][\A a \in Actors :
          (/\ ev'.op = "timeout_job"
           /\ ev'.uid = a
           /\ DictHas(calc_store, a)
           /\ ~DictHas(calc_store', a)) => jobs[a] = 0]_vars

\* ------------------------------------------------ selected-customer claims
\* C38: the visit a confirm press commits goes to the record of the very
\* customer the operator selected for the draft, whose name the draft took
\* at selection; when that customer was removed after the selection, also
\* when a customer was created afterwards, the press commits nothing.
C38_CommitsToSelectedCustomer ==
    [][ev'.op = "admin_confirm:yes" =>
          \A c \in DOMAIN customers' :
              (c \notin DOMAIN customers
               \/ customers'[c].visits # customers[c].visits)
              => /\ c \in DOMAIN customers
                 /\ DraftHas(user_data, "customer_name")
                 /\ user_data["admin_visit"]["cid"] = c
                 /\ user_data["admin_visit"]["customer_name"] = customers[c].name]_vars

\* ------------------------------------------------------ leftover claims
\* C39: a committed visit carries no value left over from an earlier run of
\* the wizard: when the operator's confirm press appends a visit, each of
\* date, category, duration, tariff type and price of the draft was written
\* by a pick made since the date keyboard was last shown, and the visit
\* holds the draft's values.
C39_CommittedFieldsPicked ==
    [][\A c \in DOMAIN customers \cap DOMAIN customers' :
          Len(customers'[c].visits) > Len(customers[c].visits)
          => /\ {"date", "kind", "duration", "tariff_type", "price"} \subseteq picked
             /\ customers'[c].visits[Len(customers'[c].visits)]
                    = VisitData(user_data["admin_visit"])]_vars

\* A second visit has just been committed from a draft that still held the
\* fields of the first: the two differ in category and in tariff type.
C39_Witness ==
    /\ ev = AdminEvent("admin_confirm:yes", "visit_added")
    /\ "1" \in DOMAIN customers
    /\ Len(customers["1"].visits) = 2
    /\ customers["1"].visits[1].kind = "exact"
    /\ customers["1"].visits[1].tariff_type = "standard"
    /\ customers["1"].visits[2].kind = "free"
    /\ customers["1"].visits[2].tariff_type = "discount"

\* -------------------------------------------------- independence claims
QuoteOps ==
    {"start", "menu:start", "menu:status", "menu:visits", "menu:calc", "date",
     "time", "timer_fire", "timeout_job"}

\* C40: the quote sessions of different actors are independent: a start,
\* touch, reset, validation or expiry step of one actor leaves every other
\* actor's session presence, session id, queued expiry timer and dispatched
\* callbacks as they were.
C40_SessionsIndependent ==
    [][\A b \in Actors :
          (ev'.op \in QuoteOps /\ ev'.uid # b)
          => /\ DictHas(calc_store', b) = DictHas(calc_store, b)
             /\ get_active_calc_session(calc_store', b)
                    = get_active_calc_session(calc_store, b)
             /\ jobs'[b] = jobs[b]
             /\ running'[b] = running[b]]_vars

\* Actor 11's session has just expired while actor 12 holds a session with
\* its timer queued.
C40_Witness ==
    /\ ev = Event("timeout_job", 11, EmptyStr, "timeout_notice")
    /\ ~DictHas(calc_store, 11)
    /\ DictHas(calc_store, 12)
    /\ get_active_calc_session(calc_store, 12) = lastIssued[12]
    /\ jobs[12] = 1

====
